---- MODULE Spec2Model ----
(***************************************************************************)
(* Model of elsey_shepard: the biography engine (src/bio_writer.py), the    *)
(* batch tool (src/bio_batch_jsonl.py), the family register (src/main.py)  *)
(* and the GEDCOM family scanner (src/gedcom_to_json.py).                  *)
(*                                                                         *)
(* Text is modelled at character level where the code works on characters  *)
(* (split, strip, casefold, int): a Python str is a sequence of            *)
(* one-character strings.  Every reader in bio_writer.py tests optional    *)
(* text by truthiness, so an absent key, None and "" are one value, the    *)
(* empty sequence.  An optional int is <<>> (None) or <<n>>.  A            *)
(* datetime.date is <<y, m, d>> and a missing one is <<>>.  Texts the code *)
(* builds with f-strings are TLA+ strings built with \o.                   *)
(***************************************************************************)
EXTENDS Integers, Sequences, FiniteSets, TLC

VARIABLES
    text,      \* DateResolver: the string handed to _parse_partial
    parsed,    \* DateResolver: what _parse_partial returned for it
    person,    \* BiographyBuilder: the input record of build_biography
    today,     \* the value date.today() returns at this moment
    result,    \* BiographyBuilder: outcome of the latest build_biography call
    birth_text, \* DateResolver: the birth date handed to _age_on_partial
    event_text, \* DateResolver: the event date handed to _age_on_partial
    age,        \* DateResolver: what _age_on_partial returned for them
    rendered,  \* DateResolver: outcome of _format_when_iso for the text
    jsonl,     \* the lines of the input .jsonl file
    args,      \* BatchProcessor: the command-line options strict, outdir, combined
    lineno,    \* BatchProcessor: lines of the file read so far
    stats,     \* BatchProcessor: the processed and skipped counts
    outdir_files, \* BatchProcessor: the files of the output directory, name and content
    combined_file, \* BatchProcessor: the writes to the combined file, in order
    first_combined, \* BatchProcessor: no entry was written to the combined file yet
    stderr,    \* BatchProcessor: the messages logged, in order
    exit_code, \* BatchProcessor: <<>> while running, then the exit status
    stdout,    \* BatchProcessor: the writes to standard output, in order
    william,   \* main.py: the Person built by from_raw, with its marriages and death
    call,      \* main.py: the latest call on william or collect_deaths: arguments and outcome
    ged,       \* the lines of the GEDCOM file
    scanned,   \* gedcom_to_json.py: lines of the file read so far
    families,  \* gedcom_to_json.py: the families found, by xref id
    current_fid, \* gedcom_to_json.py: the family being read, <<>> before the first
    inside_marr, \* gedcom_to_json.py: a 1 MARR block is open
    marr_obj   \* gedcom_to_json.py: the date and place of the open MARR block

vars == <<text, parsed, person, today, result, birth_text, event_text, age,
          rendered, jsonl, args, lineno, stats, outdir_files,
          combined_file, first_combined, stderr, exit_code, stdout,
          william, call, ged, scanned, families, current_fid, inside_marr,
          marr_obj>>

----------------------------------------------------------------------------
(* Python str primitives                                                   *)

None == <<>>

Some(n) == <<n>>

Truthy(v) == v # <<>> /\ v # <<0>>

Whitespace == {" ", "\t", "\n"}

Digits == <<"0", "1", "2", "3", "4", "5", "6", "7", "8", "9">>

LowerLetters ==
    <<"a", "b", "c", "d", "e", "f", "g", "h", "i", "j", "k", "l", "m",
      "n", "o", "p", "q", "r", "s", "t", "u", "v", "w", "x", "y", "z">>

UpperLetters ==
    <<"A", "B", "C", "D", "E", "F", "G", "H", "I", "J", "K", "L", "M",
      "N", "O", "P", "Q", "R", "S", "T", "U", "V", "W", "X", "Y", "Z">>

IsDigit(c) == \E i \in DOMAIN Digits : Digits[i] = c

UpperChar(c) ==
    IF \E i \in DOMAIN LowerLetters : LowerLetters[i] = c
    THEN UpperLetters[CHOOSE i \in DOMAIN LowerLetters : LowerLetters[i] = c]
    ELSE c

LowerChar(c) ==
    IF \E i \in DOMAIN UpperLetters : UpperLetters[i] = c
    THEN LowerLetters[CHOOSE i \in DOMAIN UpperLetters : UpperLetters[i] = c]
    ELSE c

IsLetter(c) == LowerChar(c) # c \/ UpperChar(c) # c

\* str.upper() / str.lower() / str.casefold() on the ASCII texts drawn here
Upper(cs) == [i \in DOMAIN cs |-> UpperChar(cs[i])]

Lower(cs) == [i \in DOMAIN cs |-> LowerChar(cs[i])]

RECURSIVE LStripChars(_, _)
LStripChars(cs, chars) ==
    IF cs # <<>> /\ Head(cs) \in chars THEN LStripChars(Tail(cs), chars) ELSE cs

RECURSIVE RStripChars(_, _)
RStripChars(cs, chars) ==
    IF cs # <<>> /\ cs[Len(cs)] \in chars
    THEN RStripChars(SubSeq(cs, 1, Len(cs) - 1), chars)
    ELSE cs

\* str.strip(chars)
StripChars(cs, chars) == RStripChars(LStripChars(cs, chars), chars)

\* str.strip()
Strip(cs) == StripChars(cs, Whitespace)

\* str.split(sep): every separator cuts, empty pieces are kept
RECURSIVE SplitOn(_, _)
SplitOn(cs, sep) ==
    IF \E i \in DOMAIN cs : cs[i] = sep
    THEN LET i == CHOOSE k \in DOMAIN cs :
                    cs[k] = sep /\ \A j \in 1..(k - 1) : cs[j] # sep
         IN  <<SubSeq(cs, 1, i - 1)>> \o SplitOn(SubSeq(cs, i + 1, Len(cs)), sep)
    ELSE <<cs>>

\* str.split(): runs of whitespace cut, empty pieces are dropped
RECURSIVE SplitWs(_)
SplitWs(cs) ==
    LET t == LStripChars(cs, Whitespace)
    IN  IF t = <<>> THEN <<>>
        ELSE IF \E i \in DOMAIN t : t[i] \in Whitespace
        THEN LET i == CHOOSE k \in DOMAIN t :
                        t[k] \in Whitespace /\ \A j \in 1..(k - 1) : t[j] \notin Whitespace
             IN  <<SubSeq(t, 1, i - 1)>> \o SplitWs(SubSeq(t, i, Len(t)))
        ELSE <<t>>

\* str.count(c)
Count(cs, c) == Cardinality({i \in DOMAIN cs : cs[i] = c})

\* the text a character sequence stands for, as one string
RECURSIVE Str(_)
Str(cs) == IF cs = <<>> THEN "" ELSE Head(cs) \o Str(Tail(cs))

\* "\t" * n
RECURSIVE Tabs(_)
Tabs(n) == IF n <= 0 THEN "" ELSE "\t" \o Tabs(n - 1)

RECURSIVE DigitsValue(_)
DigitsValue(ds) ==
    IF ds = <<>> THEN 0
    ELSE 10 * DigitsValue(SubSeq(ds, 1, Len(ds) - 1)) 
             + (CHOOSE i \in DOMAIN Digits : Digits[i] = ds[Len(ds)]) - 1

\* int(s): surrounding whitespace and one sign are accepted, then decimal
\* digits only; <<>> stands for the ValueError.  ("_" digit grouping is not
\* in the alphabet of the texts drawn.)
SignedDigits(sign, body) ==
    IF body # <<>> /\ \A i \in DOMAIN body : IsDigit(body[i])
    THEN IF sign = "-" THEN Some(0 - DigitsValue(body)) ELSE Some(DigitsValue(body))
    ELSE None

IntOfStripped(t) ==
    IF t # <<>> /\ Head(t) \in {"+", "-"}
    THEN SignedDigits(Head(t), Tail(t))
    ELSE SignedDigits("+", t)

PyInt(cs) == IntOfStripped(Strip(cs))

----------------------------------------------------------------------------
(* Date parsing and formatting helpers                                     *)

\* index 0 of the Python list is the empty name
_MONTHS_EN ==
    <<"", "January", "February", "March", "April", "May", "June",
      "July", "August", "September", "October", "November", "December">>

\* list[i] of Python: 0-based, a negative index counts from the end, and an
\* index outside the list is an IndexError
IndexInRange(list, i) == (0 - Len(list)) <= i /\ i < Len(list)

PyIndex(list, i) == IF i >= 0 THEN list[i + 1] ELSE list[Len(list) + i + 1]

NoDate == [y |-> None, m |-> None, d |-> None]

DaysInMonth(y, m) ==
    IF m = 2
    THEN (IF (y % 4 = 0 /\ y % 100 # 0) \/ y % 400 = 0 THEN 29 ELSE 28)
    ELSE IF m \in {4, 6, 9, 11} THEN 30 ELSE 31

\* datetime.date(y, m, d) succeeds (MINYEAR..MAXYEAR, a real calendar day)
ValidDate(y, m, d) ==
    /\ 1 <= y /\ y <= 9999
    /\ 1 <= m /\ m <= 12
    /\ 1 <= d /\ d <= DaysInMonth(y, m)

\* date(y, m, d) of three int() results, None when an int() or date() raised
DateOfInts(y, m, d) ==
    IF y = None \/ m = None \/ d = None THEN None
    ELSE IF ValidDate(y[1], m[1], d[1]) THEN <<y[1], m[1], d[1]>>
    ELSE None

\* _parse_ymd: a date only for a valid YYYY-MM-DD, else None.
\* y, m, d = map(int, s.split("-")): exactly three pieces, or a ValueError
_parse_ymd(s) ==
    IF s = <<>> \/ Len(SplitOn(s, "-")) # 3 THEN None
    ELSE DateOfInts(PyInt(SplitOn(s, "-")[1]), PyInt(SplitOn(s, "-")[2]),
                    PyInt(SplitOn(s, "-")[3]))

\* the try block of _parse_partial: the month is read whenever there are
\* two or more pieces, the day only when there are exactly three, and any
\* int() that was called and raised gives (None, None, None)
PartialOfParts(parts) ==
    IF \/ PyInt(parts[1]) = None
       \/ Len(parts) >= 2 /\ PyInt(parts[2]) = None
       \/ Len(parts) = 3 /\ PyInt(parts[3]) = None
    THEN NoDate
    ELSE [y |-> PyInt(parts[1]),
          m |-> IF Len(parts) >= 2 THEN PyInt(parts[2]) ELSE None,
          d |-> IF Len(parts) = 3 THEN PyInt(parts[3]) ELSE None]

\* _parse_partial: (year, month, day), each None or an int
_parse_partial(s) == IF s = <<>> THEN NoDate ELSE PartialOfParts(SplitOn(s, "-"))

\* _format_when_iso on the parsed triple; the year-month branch indexes
\* _MONTHS_EN outside any try
WhenRaises(p) ==
    /\ Truthy(p.y)
    /\ ~(Truthy(p.m) /\ Truthy(p.d))
    /\ Truthy(p.m)
    /\ ~IndexInRange(_MONTHS_EN, p.m[1])

_format_when_iso_raises(s) == WhenRaises(_parse_partial(s))

\* the rendered date, "" for None
WhenOf(p) ==
    IF ~Truthy(p.y) THEN ""
    ELSE IF Truthy(p.m) /\ Truthy(p.d)
    THEN IF IndexInRange(_MONTHS_EN, p.m[1])
         THEN ToString(p.d[1]) \o " " \o PyIndex(_MONTHS_EN, p.m[1])
                  \o " " \o ToString(p.y[1])
         ELSE ToString(p.y[1])
    ELSE IF Truthy(p.m)
    THEN IF IndexInRange(_MONTHS_EN, p.m[1])
         THEN PyIndex(_MONTHS_EN, p.m[1]) \o " " \o ToString(p.y[1])
         ELSE "IndexError"
    ELSE ToString(p.y[1])

_format_when_iso(s) == WhenOf(_parse_partial(s))

\* _format_date of a datetime.date
_format_date(d) ==
    ToString(d[3]) \o " " \o PyIndex(_MONTHS_EN, d[2]) \o " " \o ToString(d[1])

----------------------------------------------------------------------------
(* Helpers                                                                 *)

PronounsOf(s) ==
    IF s = <<"M">> THEN [subj |-> <<"H", "e">>, obj |-> <<"h", "i", "m">>,
                         poss |-> <<"h", "i", "s">>]
    ELSE IF s = <<"F">> THEN [subj |-> <<"S", "h", "e">>, obj |-> <<"h", "e", "r">>,
                              poss |-> <<"h", "e", "r">>]
    ELSE [subj |-> <<"T", "h", "e", "y">>, obj |-> <<"t", "h", "e", "m">>,
          poss |-> <<"t", "h", "e", "i", "r">>]

_pronouns(sex) == PronounsOf(Upper(Strip(sex)))

\* str.capitalize()
Capitalize(cs) ==
    [i \in DOMAIN cs |-> IF i = 1 THEN UpperChar(cs[i]) ELSE LowerChar(cs[i])]

_has_death_info(entry) == entry.death.date # <<>> \/ entry.death.place # <<>>

\* a variant that never takes the year back
_age_on_exact_plain(d_birth, d_event) ==
    IF d_birth = None \/ d_event = None THEN None
    ELSE Some(d_event[1] - d_birth[1])

_age_on_exact(d_birth, d_event) ==
    IF d_birth = None \/ d_event = None THEN None
    ELSE IF \/ d_event[2] < d_birth[2]
            \/ d_event[2] = d_birth[2] /\ d_event[3] < d_birth[3]
    THEN Some(d_event[1] - d_birth[1] - 1)
    ELSE Some(d_event[1] - d_birth[1])

NoAge == [age |-> None, approx |-> FALSE]

\* _age_on_partial on the two parsed triples b, e and the two full dates
\* db, de (None unless the text is a valid YYYY-MM-DD)
AgeOf(b, e, db, de) ==
    IF ~Truthy(b.y) \/ ~Truthy(e.y) THEN NoAge
    ELSE IF db # None /\ de # None
    THEN [age |-> _age_on_exact(db, de), approx |-> FALSE]
    ELSE IF Truthy(b.m) /\ Truthy(e.m) /\ e.m[1] < b.m[1]
    THEN [age |-> Some(e.y[1] - b.y[1] - 1), approx |-> TRUE]
    ELSE [age |-> Some(e.y[1] - b.y[1]), approx |-> TRUE]

_age_on_partial(birth_iso, event_iso) ==
    AgeOf(_parse_partial(birth_iso), _parse_partial(event_iso),
          _parse_ymd(birth_iso), _parse_ymd(event_iso))

_ORDINALS ==
    <<"first", "second", "third", "fourth", "fifth",
      "sixth", "seventh", "eighth", "ninth", "tenth">>

_ordinal(n) == IF n \in DOMAIN _ORDINALS THEN _ORDINALS[n] ELSE ToString(n) \o "th"

\* a variant that compares the places as they are written
_norm_place_verbatim(s) == s

_norm_place(s) == Lower(Strip(s))

_indent_from_henry(hn) == Tabs(Count(hn, "."))

----------------------------------------------------------------------------
(* RelationshipInferencer                                                  *)

\* the em dash U+2014, one character (the module text is ASCII)
EmDash == "<U+2014>"

\* the last piece that is not made of dashes only, with ",. " stripped
LastKept(pieces) ==
    LET kept == {i \in DOMAIN pieces : StripChars(pieces[i], {EmDash, "-"}) # <<>>}
    IN  IF kept = {} THEN <<>>
        ELSE StripChars(pieces[CHOOSE i \in kept : \A j \in kept : j <= i],
                        {",", ".", " "})

\* _last_token as the module ends up binding it (the second definition,
\* which replaces the first): the surname, not casefolded
_last_token(s) == LastKept(SplitWs(Strip(s)))

SoundexDigit(c) ==
    IF c \in {"B", "F", "P", "V"} THEN "1"
    ELSE IF c \in {"C", "G", "J", "K", "Q", "S", "X", "Z"} THEN "2"
    ELSE IF c \in {"D", "T"} THEN "3"
    ELSE IF c = "L" THEN "4"
    ELSE IF c \in {"M", "N"} THEN "5"
    ELSE IF c = "R" THEN "6"
    ELSE IF c \in {"A", "E", "I", "O", "U", "Y", "H", "W"} THEN "0"
    ELSE c

\* the characters of cs that are letters
LettersOf(cs) ==
    LET F[i \in 0..Len(cs)] ==
            IF i = 0 THEN <<>>
            ELSE IF IsLetter(cs[i]) THEN Append(F[i - 1], cs[i]) ELSE F[i - 1]
    IN  F[Len(cs)]

\* re.sub(r'(\d)\1+', r'\1', coded): a run of one digit becomes that digit
CollapseRuns(cs) ==
    LET F[i \in 0..Len(cs)] ==
            IF i = 0 THEN <<>>
            ELSE IF i > 1 /\ cs[i] = cs[i - 1] /\ IsDigit(cs[i]) THEN F[i - 1]
            ELSE Append(F[i - 1], cs[i])
    IN  F[Len(cs)]

\* coded.replace('0', '')
DropZeros(cs) ==
    LET F[i \in 0..Len(cs)] ==
            IF i = 0 THEN <<>>
            ELSE IF cs[i] # "0" THEN Append(F[i - 1], cs[i]) ELSE F[i - 1]
    IN  F[Len(cs)]

\* the key of the upper-cased letters t of a token
SoundexOfLetters(t) ==
    IF t = <<>> THEN <<>>
    ELSE SubSeq(<<Head(t)>>
                    \o DropZeros(CollapseRuns([i \in DOMAIN Tail(t) |->
                                                  SoundexDigit(Tail(t)[i])]))
                    \o <<"0", "0", "0">>,
                1, 4)

_soundex_key(token) == SoundexOfLetters(Upper(LettersOf(token)))

_surname_key(s) == _soundex_key(_last_token(s))

\* the heuristic of the second definition: listed children whose lower-cased
\* surname equals the spouse's
SurnameMatches(children, spouse_surname) ==
    IF spouse_surname = <<>> THEN 0
    ELSE Cardinality({i \in DOMAIN children :
                         /\ children[i].name # <<>>
                         /\ _last_token(children[i].name) # <<>>
                         /\ Lower(spouse_surname) = Lower(_last_token(children[i].name))})

\* a variant that reads children_henry_numbers first (the order of the
\* docstring of _children_distribution), before children_count
_infer_children_henry_first(p, spouse) ==
    IF spouse.children_henry_numbers # <<>>
    THEN Cardinality({spouse.children_henry_numbers[k] :
                         k \in DOMAIN spouse.children_henry_numbers})
    ELSE IF spouse.children_count # None THEN spouse.children_count[1]
    ELSE IF spouse.children # <<>> THEN Len(spouse.children)
    ELSE SurnameMatches(p.children, _last_token(spouse.name))

\* _infer_children_for_spouse as the module ends up binding it (the second
\* definition, lines 319-343, replaces the one of lines 284-306, which is
\* never called): children_count, then the spouse's own children list, then
\* equality of lower-cased surnames.  children_henry_numbers is not read.
_infer_children_for_spouse(p, spouse) ==
    IF spouse.children_count # None THEN spouse.children_count[1]
    ELSE IF spouse.children # <<>> THEN Len(spouse.children)
    ELSE SurnameMatches(p.children, _last_token(spouse.name))

----------------------------------------------------------------------------
(* Configuration                                                           *)

AGE_ASSUME_DECEASED_YEARS == 100

----------------------------------------------------------------------------
(* Formatting helpers                                                      *)

Unknown == <<"U", "n", "k", "n", "o", "w", "n">>

_safe_name(x, fallback) == IF Strip(x.name) # <<>> THEN Strip(x.name) ELSE fallback

\* sep.join(strings)
RECURSIVE Join(_, _)
Join(strs, sep) ==
    IF strs = <<>> THEN ""
    ELSE IF Len(strs) = 1 THEN strs[1]
    ELSE strs[1] \o sep \o Join(Tail(strs), sep)

\* "<name> was born[ on <when>][, in <place>]."
BornSentence(name, when, place) ==
    name \o " was born"
        \o (IF when # "" /\ place # <<>> THEN " on " \o when \o ", in " \o Str(place)
            ELSE IF when # "" THEN " on " \o when
            ELSE IF place # <<>> THEN " in " \o Str(place)
            ELSE "")
        \o "."

ParentsPhrase(verb, relation, father, mother) ==
    IF father # <<>> /\ mother # <<>>
    THEN verb \o " the " \o relation \o " of " \o Str(father)
             \o " and " \o Str(mother) \o "."
    ELSE IF father # <<>>
    THEN verb \o " the " \o relation \o " of " \o Str(father) \o "."
    ELSE verb \o " the " \o relation \o " of " \o Str(mother) \o "."

\* the parentage sentence appended to the birth sentence, "" without parents;
\* alive = not bool(person.get("death"))
ParentsTail(p, P) ==
    IF p.parents.father # <<>> \/ p.parents.mother # <<>>
    THEN " " \o Str(P.subj) \o " "
             \o ParentsPhrase(IF ~p.death.given THEN "is" ELSE "was",
                              IF P.subj = <<"H", "e">> THEN "son"
                              ELSE IF P.subj = <<"S", "h", "e">> THEN "daughter"
                              ELSE "child",
                              p.parents.father, p.parents.mother)
    ELSE ""

\* Only the canonical parents.father / parents.mother keys are drawn; the
\* alias keys the code also reads are absent from every input.
_format_birth_parents(p, P) ==
    BornSentence(Str(_safe_name(p, Unknown)), _format_when_iso(p.birth.date),
                 p.birth.place)
        \o ParentsTail(p, P)

IntroOf(head, d_b, place_b) ==
    IF d_b # None /\ place_b # <<>>
    THEN head \o ", who was born on " \o _format_date(d_b) \o " in "
             \o Str(place_b) \o "."
    ELSE IF d_b # None THEN head \o ", who was born on " \o _format_date(d_b) \o "."
    ELSE IF place_b # <<>> THEN head \o ", who was born in " \o Str(place_b) \o "."
    ELSE head \o "."

_spouse_intro(spouse, P, idx, total) ==
    IntroOf(Str(Capitalize(P.poss))
                \o (IF total = 1 THEN "" ELSE " " \o _ordinal(idx))
                \o " spouse was " \o Str(_safe_name(spouse, Unknown)),
            _parse_ymd(spouse.birth.date), spouse.birth.place)

MarriageBase(when, place) ==
    IF when # "" /\ place # <<>>
    THEN "They were married on " \o when \o " in " \o Str(place)
    ELSE IF when # "" THEN "They were married on " \o when
    ELSE IF place # <<>> THEN "They were married in " \o Str(place)
    ELSE ""

MarriageOf(base, a_p, a_s, P, S) ==
    IF base = "" THEN ""
    ELSE IF a_p.age # None /\ a_s.age # None
    THEN base \o "; " \o Str(Lower(P.subj)) \o " was"
             \o (IF a_p.approx \/ a_s.approx THEN " about" ELSE "") \o " "
             \o ToString(a_p.age[1]) \o " and " \o Str(Lower(S.subj)) \o " was"
             \o (IF a_p.approx \/ a_s.approx THEN " about" ELSE "") \o " "
             \o ToString(a_s.age[1]) \o "."
    ELSE base \o "."

\* an absent marriage and one with neither date nor place both give ""
_format_marriage(p, spouse, P, S) ==
    MarriageOf(MarriageBase(_format_when_iso(spouse.marriage.date),
                            Strip(spouse.marriage.place)),
               _age_on_partial(p.birth.date, spouse.marriage.date),
               _age_on_partial(spouse.birth.date, spouse.marriage.date),
               P, S)

ChildrenClauseOf(n) ==
    IF n > 0
    THEN "From this marriage, they had at least " \o ToString(n) \o " "
             \o (IF n = 1 THEN "child" ELSE "children") \o "."
    ELSE ""

_children_clause(p, spouse) == ChildrenClauseOf(_infer_children_for_spouse(p, spouse))

\* the burial clause of _death_sentence, "" when it is left out
BurialClause(p, P) ==
    IF p.burial.place # <<>>
       /\ _norm_place(p.burial.place) # _norm_place(p.death.place)
       /\ _norm_place(p.burial.place) # _norm_place(p.birth.place)
    THEN " " \o Str(P.subj) \o " was buried in " \o Str(p.burial.place) \o "."
    ELSE ""

DeathCore(name, when, d_place, a) ==
    name \o " died"
        \o (IF when # "" /\ d_place # <<>> THEN " on " \o when \o " in " \o Str(d_place)
            ELSE IF when # "" THEN " on " \o when
            ELSE " in " \o Str(d_place))
        \o (IF a.age # None
            THEN ", at the age of" \o (IF a.approx THEN " about" ELSE "")
                     \o " " \o ToString(a.age[1]) \o "."
            ELSE ".")

DeathOf(p, P, when, a) ==
    IF when = "" /\ p.death.place = <<>> THEN ""
    ELSE DeathCore(Str(_safe_name(p, Unknown)), when, p.death.place, a)
             \o BurialClause(p, P)

\* _death_sentence: "" for None
_death_sentence(p, P) ==
    DeathOf(p, P, _format_when_iso(p.death.date),
            _age_on_partial(p.birth.date, p.death.date))

\* _death_tuple: (death_date, sentence); the date is a full date or None
_death_tuple(entry) ==
    <<_parse_ymd(entry.death.date), _death_sentence(entry, _pronouns(entry.gender))>>

\* no death info, a truthy birth year y, and
\* today.year - y >= AGE_ASSUME_DECEASED_YEARS
_is_100_plus_without_death(entry, now) ==
    /\ ~_has_death_info(entry)
    /\ Truthy(_parse_partial(entry.birth.date).y)
    /\ now[1] - _parse_partial(entry.birth.date).y[1] >= AGE_ASSUME_DECEASED_YEARS

\* a variant that does not indent the row
ChildLine_flat(hn, nm) == Str(hn) \o " " \o Str(nm)

ChildLine(hn, nm) == _indent_from_henry(hn) \o Str(hn) \o " " \o Str(nm)

\* a variant that keeps a row for a child with no name
_format_children_list_all_rows(children) ==
    [i \in DOMAIN children |->
        ChildLine(children[i].henry_number, _safe_name(children[i], <<>>))]

\* _format_children_list, as its lines
_format_children_list(children) ==
    LET F[i \in 0..Len(children)] ==
            IF i = 0 THEN <<>>
            ELSE IF children[i].henry_number # <<>> /\ _safe_name(children[i], <<>>) # <<>>
            THEN Append(F[i - 1], ChildLine(children[i].henry_number,
                                            _safe_name(children[i], <<>>)))
            ELSE F[i - 1]
    IN  F[Len(children)]

----------------------------------------------------------------------------
(* Public API: build_biography                                             *)

DateLess(a, b) ==
    \/ a[1] < b[1]
    \/ a[1] = b[1] /\ a[2] < b[2]
    \/ a[1] = b[1] /\ a[2] = b[2] /\ a[3] < b[3]

\* the sort key of a death entry: (x[0] is None, x[0] or date.max)
DeathKey(x) == <<x[1] = None, IF x[1] = None THEN <<9999, 12, 31>> ELSE x[1]>>

\* how many entries of sorted stay in front of x: list.sort is stable, so x
\* goes behind every entry whose key is not greater than its own
FrontOf(sorted, x) ==
    Cardinality({i \in DOMAIN sorted :
                     ~(\/ ~DeathKey(x)[1] /\ DeathKey(sorted[i])[1]
                       \/ /\ DeathKey(x)[1] = DeathKey(sorted[i])[1]
                          /\ DateLess(DeathKey(x)[2], DeathKey(sorted[i])[2]))})

InsertAt(sorted, n, x) ==
    SubSeq(sorted, 1, n) \o <<x>> \o SubSeq(sorted, n + 1, Len(sorted))

\* death_entries.sort(key=lambda x: (x[0] is None, x[0] or date.max))
RECURSIVE SortDeaths(_)
SortDeaths(entries) ==
    IF entries = <<>> THEN <<>>
    ELSE InsertAt(SortDeaths(SubSeq(entries, 1, Len(entries) - 1)),
                  FrontOf(SortDeaths(SubSeq(entries, 1, Len(entries) - 1)),
                          entries[Len(entries)]),
                  entries[Len(entries)])

\* the exception build_biography lets through: _format_when_iso is called,
\* outside any try, on the subject's birth and death date and on every
\* spouse's marriage and death date
build_biography_raises(p) ==
    \/ _format_when_iso_raises(p.birth.date)
    \/ _format_when_iso_raises(p.death.date)
    \/ \E i \in DOMAIN p.spouses :
           \/ _format_when_iso_raises(p.spouses[i].marriage.date)
           \/ _format_when_iso_raises(p.spouses[i].death.date)

NoResult ==
    [status |-> "none", header |-> "", blocks |-> <<>>, parts |-> <<>>,
     death_entries |-> <<>>, added_unified_absence |-> FALSE,
     children_block |-> <<>>, main_text |-> "", body |-> "", text |-> ""]

\* "A and B" for two names, "A, B, and C" for more
\* a variant that joins every name with a comma
NamesPhrase_commas(all_names) == Join(all_names, ", ")

NamesPhrase(all_names) ==
    IF Len(all_names) = 2 THEN all_names[1] \o " and " \o all_names[2]
    ELSE Join(SubSeq(all_names, 1, Len(all_names) - 1), ", ")
             \o ", and " \o all_names[Len(all_names)]

AllNames(p) ==
    <<Str(_safe_name(p, Unknown))>>
        \o [i \in DOMAIN p.spouses |-> Str(_safe_name(p.spouses[i], Unknown))]

\* " as of <today>." when the subject or a spouse is 100+ with no death
AbsenceTail(p, now) ==
    IF \/ _is_100_plus_without_death(p, now)
       \/ \E i \in DOMAIN p.spouses : _is_100_plus_without_death(p.spouses[i], now)
    THEN " as of " \o _format_date(now) \o "."
    ELSE "."

\* a variant that does not look at added_unified_absence
DeathAbsence_unguarded(p, now, added_unified_absence) ==
    IF p.spouses # <<>>
    THEN "No records of death have been found to date for "
             \o NamesPhrase(AllNames(p)) \o AbsenceTail(p, now)
    ELSE IF ~_has_death_info(p)
    THEN "No records of death have been found to date" \o
             (IF _is_100_plus_without_death(p, now)
              THEN " as of " \o _format_date(now) \o "."
              ELSE ".")
    ELSE ""

\* the sentence of the branch "no death entry was collected", "" if none
DeathAbsence(p, now, added_unified_absence) ==
    IF p.spouses # <<>>
    THEN "No records of death have been found to date for "
             \o NamesPhrase(AllNames(p)) \o AbsenceTail(p, now)
    ELSE IF ~_has_death_info(p) /\ ~added_unified_absence
    THEN "No records of death have been found to date" \o
             (IF _is_100_plus_without_death(p, now)
              THEN " as of " \o _format_date(now) \o "."
              ELSE ".")
    ELSE ""

\* what the loop over the spouses appends for spouse idx, and the count n
\* its children clause rests on
SpouseBlock(p, spouse, P, idx, total) ==
    [intro    |-> _spouse_intro(spouse, P, idx, total),
     marriage |-> _format_marriage(p, spouse, P, _pronouns(spouse.gender)),
     children |-> _children_clause(p, spouse),
     n        |-> _infer_children_for_spouse(p, spouse)]

RECURSIVE BlockParts(_)
BlockParts(blocks) ==
    IF blocks = <<>> THEN <<>>
    ELSE BlockParts(SubSeq(blocks, 1, Len(blocks) - 1))
             \o <<blocks[Len(blocks)].intro, blocks[Len(blocks)].marriage,
                  blocks[Len(blocks)].children>>

Alone(p) == p.spouses = <<>> /\ p.children = <<>>

\* a variant whose merged sentence does not depend on the death
RelationParts_ignoring_death(p, blocks) ==
    IF Alone(p)
    THEN <<"No records of marriage, children or death have been found to date.">>
    ELSE BlockParts(blocks)

RelationParts(p, blocks) ==
    IF Alone(p)
    THEN IF ~_has_death_info(p)
         THEN <<"No records of marriage, children or death have been found to date.">>
         ELSE <<"No records of marriage or children have been found to date.">>
    ELSE BlockParts(blocks)

DeathParts(p, now, death_entries) ==
    IF death_entries # <<>>
    THEN <<Join([i \in DOMAIN death_entries |-> death_entries[i][2]], " ")>>
    ELSE <<DeathAbsence(p, now, Alone(p) /\ ~_has_death_info(p))>>

\* the indentation of the "Their children were:" label
LabelIndent(henry, children) ==
    IF children # <<>> /\ _indent_from_henry(children[1].henry_number) # ""
    THEN _indent_from_henry(children[1].henry_number)
    ELSE Tabs(Count(henry, ".") + 1)

BodyOf(main_text, children_block, label_indent) ==
    IF children_block # <<>>
    THEN main_text \o "\n\n" \o label_indent \o "Their children were:\n\n"
             \o Join(children_block, "\n")
    ELSE main_text

\* the return value, with the locals of the call kept beside it
Returned(header, blocks, parts, death_entries, added, children_block, main_text, body) ==
    [status |-> "ok", header |-> header, blocks |-> blocks, parts |-> parts,
     death_entries |-> death_entries, added_unified_absence |-> added,
     children_block |-> children_block, main_text |-> main_text,
     body |-> body, text |-> header \o "\n\n" \o body]

WithMainText(p, header, blocks, parts, death_entries, children_block, main_text) ==
    Returned(header, blocks, parts, death_entries, Alone(p) /\ ~_has_death_info(p),
             children_block, main_text,
             BodyOf(main_text, children_block, LabelIndent(p.henry_number, p.children)))

\* every part the function appends begins with a name or a capital and ends
\* with ".", so the s.strip() of the final join changes nothing
WithParts(p, header, blocks, parts, death_entries) ==
    WithMainText(p, header, blocks, parts, death_entries,
                 _format_children_list(p.children), Join(parts, " "))

WithDeaths(p, now, P, header, blocks, death_entries) ==
    WithParts(p, header, blocks,
              SelectSeq(<<_format_birth_parents(p, P)>>
                            \o RelationParts(p, blocks)
                            \o DeathParts(p, now, death_entries),
                        LAMBDA part : part # ""),
              death_entries)

WithPronouns(p, now, P) ==
    WithDeaths(p, now, P,
               Tabs(Count(p.henry_number, ".")) \o Str(p.henry_number) \o " "
                   \o Str(_safe_name(p, Unknown)),
               [idx \in DOMAIN p.spouses |->
                    SpouseBlock(p, p.spouses[idx], P, idx, Len(p.spouses))],
               \* the (date, sentence) tuples with a sentence: the subject's,
               \* then the spouses' in listed order
               SortDeaths(SelectSeq(<<_death_tuple(p)>>
                                        \o [i \in DOMAIN p.spouses |->
                                                _death_tuple(p.spouses[i])],
                                    LAMBDA t : t[2] # "")))

\* build_biography(person) called when date.today() is now.
\* ENABLE_QNA_SUMMARY_PT is False, so no summary block follows the body.
build_biography(p, now) ==
    IF build_biography_raises(p)
    THEN [NoResult EXCEPT !.status = "IndexError"]
    ELSE WithPronouns(p, now, _pronouns(p.gender))

----------------------------------------------------------------------------
(* Records                                                                 *)

Event(date, place) == [date |-> date, place |-> place]

\* person["death"]: given tells a non-empty dict (truthy) from a missing one
Death(date, place) == [given |-> TRUE, date |-> date, place |-> place]

NoDeath == [given |-> FALSE, date |-> <<>>, place |-> <<>>]

Burial(place) == [place |-> place]

Parents(father, mother) == [father |-> father, mother |-> mother]

Child(henry_number, name) == [henry_number |-> henry_number, name |-> name]

----------------------------------------------------------------------------
(* Texts of the sample record, as character sequences                     *)

SampleTexts ==
    [
     \* "Albert Young Shepard"
     name |->
        <<"A", "l", "b", "e", "r", "t", " ", "Y", "o", "u", "n", "g", " ", "S",
        "h", "e", "p", "a", "r", "d">>,
     \* "Rich Valley, Smyth County, Virginia, USA"
     birth_place |->
        <<"R", "i", "c", "h", " ", "V", "a", "l", "l", "e", "y", ",", " ", "S",
        "m", "y", "t", "h", " ", "C", "o", "u", "n", "t", "y", ",", " ", "V",
        "i", "r", "g", "i", "n", "i", "a", ",", " ", "U", "S", "A">>,
     \* "William R Shepard"
     father |->
        <<"W", "i", "l", "l", "i", "a", "m", " ", "R", " ", "S", "h", "e", "p",
        "a", "r", "d">>,
     \* "Asseneth Lucinda Chenault"
     mother |->
        <<"A", "s", "s", "e", "n", "e", "t", "h", " ", "L", "u", "c", "i", "n",
        "d", "a", " ", "C", "h", "e", "n", "a", "u", "l", "t">>,
     \* "Mary Oregon Johnson"
     spouse_name |->
        <<"M", "a", "r", "y", " ", "O", "r", "e", "g", "o", "n", " ", "J", "o",
        "h", "n", "s", "o", "n">>,
     \* "Chatham Hill, Smyth County, Virginia, USA"
     spouse_birth_place |->
        <<"C", "h", "a", "t", "h", "a", "m", " ", "H", "i", "l", "l", ",", " ",
        "S", "m", "y", "t", "h", " ", "C", "o", "u", "n", "t", "y", ",", " ",
        "V", "i", "r", "g", "i", "n", "i", "a", ",", " ", "U", "S", "A">>,
     \* "Smyth County, Virginia, USA"
     marriage_place |->
        <<"S", "m", "y", "t", "h", " ", "C", "o", "u", "n", "t", "y", ",", " ",
        "V", "i", "r", "g", "i", "n", "i", "a", ",", " ", "U", "S", "A">>,
     \* "Oakley, Cassia County, Idaho, USA"
     death_place |->
        <<"O", "a", "k", "l", "e", "y", ",", " ", "C", "a", "s", "s", "i", "a",
        " ", "C", "o", "u", "n", "t", "y", ",", " ", "I", "d", "a", "h", "o",
        ",", " ", "U", "S", "A">>,
     \* "Oakley Cemetery, Oakley, Cassia County, Idaho, USA"
     burial_place |->
        <<"O", "a", "k", "l", "e", "y", " ", "C", "e", "m", "e", "t", "e", "r",
        "y", ",", " ", "O", "a", "k", "l", "e", "y", ",", " ", "C", "a", "s",
        "s", "i", "a", " ", "C", "o", "u", "n", "t", "y", ",", " ", "I", "d",
        "a", "h", "o", ",", " ", "U", "S", "A">>,
     \* "Alice Shepard"
     child1 |->
        <<"A", "l", "i", "c", "e", " ", "S", "h", "e", "p", "a", "r", "d">>,
     \* "Marget Matilda Shepard"
     child2 |->
        <<"M", "a", "r", "g", "e", "t", " ", "M", "a", "t", "i", "l", "d", "a",
        " ", "S", "h", "e", "p", "a", "r", "d">>,
     \* "Marinda E. Shepard"
     child3 |->
        <<"M", "a", "r", "i", "n", "d", "a", " ", "E", ".", " ", "S", "h", "e",
        "p", "a", "r", "d">> ]

----------------------------------------------------------------------------
(* The sample record of the module's __main__ block                        *)

AlbertChildren ==
    <<Child(<<"1", ".", "1", ".", "1">>, SampleTexts.child1),
      Child(<<"1", ".", "1", ".", "2">>, SampleTexts.child2),
      Child(<<"1", ".", "1", ".", "3">>, SampleTexts.child3),
      Child(<<"1", ".", "1", ".", "4">>, <<>>)>>

AlbertYoungShepard ==
    [henry_number |-> <<"1", ".", "1">>,
     name |-> SampleTexts.name,
     gender |-> <<"M">>,
     birth |-> Event(<<"1", "8", "4", "5", "-", "1", "0", "-", "0", "9">>, SampleTexts.birth_place),
     parents |-> Parents(SampleTexts.father, SampleTexts.mother),
     \* the spouse's own children list names the fourth child with an em dash
     spouses |-> <<[name |-> SampleTexts.spouse_name,
                   gender |-> <<"F">>,
                   birth |-> Event(<<"1", "8", "4", "7", "-", "0", "3", "-", "2", "6">>,
                                   SampleTexts.spouse_birth_place),
                   death |-> NoDeath,
                   burial |-> Burial(<<>>),
                   marriage |-> Event(<<"1", "8", "6", "5", "-", "0", "1", "-", "2", "2">>,
                                      SampleTexts.marriage_place),
                   children_henry_numbers |-> <<>>,
                   children_count |-> Some(4),
                   children |-> [AlbertChildren EXCEPT ![4].name = <<EmDash>>]]>>,
     death |-> Death(<<"1", "9", "4", "5", "-", "0", "3", "-", "1", "6">>, SampleTexts.death_place),
     burial |-> Burial(SampleTexts.burial_place),
     children |-> AlbertChildren]

----------------------------------------------------------------------------
(* Inputs of the BiographyBuilder specification: every combination of an   *)
(* identity, a birth, a death, a list of children and up to MaxSpouses     *)
(* spouses, and the sample record                                          *)

\* who the subject is
Identities ==
    {
      \* Ann Lee, 1, female, parents not given
      [henry_number |-> <<"1">>,
       name |-> <<"A", "n", "n", " ", "L", "e", "e">>,
       gender |-> <<"F">>,
       parents |-> Parents(<<>>, <<>>)],
      \* Tom Lee, 1.2, male (lower-case marker), father given
      [henry_number |-> <<"1", ".", "2">>,
       name |-> <<"T", "o", "m", " ", "L", "e", "e">>,
       gender |-> <<"m">>,
       parents |-> Parents(<<"S", "a", "m", " ", "L", "e", "e">>, <<>>)] }

\* the subject's birth
Births ==
    {
      \* no birth data
      Event(<<>>, <<>>),
      \* year only: 99 years before 2026, 100 before 2027
      Event(<<"1", "9", "2", "7">>, <<>>),
      \* full date and place
      Event(<<"1", "8", "4", "5", "-", "1", "0", "-", "0", "9">>,
            <<"R", "i", "c", "h", " ", "V", "a", "l", "l", "e", "y">>),
      \* a year-month text whose month is 13
      Event(<<"1", "9", "0", "0", "-", "1", "3">>, <<>>) }

\* the subject's death and burial
Deaths ==
    {
      \* no death, no burial
      [death |-> NoDeath,
       burial |-> Burial(<<>>)],
      \* a death date that is not a date
      [death |-> Death(<<"n", "o", "t", "-", "a", "-", "d", "a", "t", "e">>, <<>>),
       burial |-> Burial(<<>>)],
      \* year-only death date
      [death |-> Death(<<"1", "9", "4", "5">>, <<>>),
       burial |-> Burial(<<>>)],
      \* full date, place, burial in the same place
      [death |-> Death(<<"1", "9", "4", "5", "-", "0", "3", "-", "1", "6">>,
                       <<"O", "a", "k", "l", "e", "y">>),
       burial |-> Burial(<<" ", "o", "a", "k", "l", "e", "y", " ">>)],
      \* place only, burial elsewhere
      [death |-> Death(<<>>, <<"O", "a", "k", "l", "e", "y">>),
       burial |-> Burial(<<"E", "l", "m", " ", "H", "i", "l", "l">>)] }

\* the subject's listed children
ChildLists ==
    {
      \* no children
      <<>>,
      \* one child
      <<Child(<<"1", ".", "1">>, <<"J", "o", " ", "M", "u", "n", "c", "y">>)>>,
      \* three children, the last unnamed
      <<Child(<<"1", ".", "1">>, <<"J", "o", " ", "M", "u", "n", "c", "e", "y">>),
          Child(<<"1", ".", "2">>, <<"A", "l", " ", "M", "u", "n", "c", "y">>),
          Child(<<"1", ".", "3">>, <<>>)>> }

\* Mary Muncey: no child signal, no death
MaryMuncey ==
    [name |-> <<"M", "a", "r", "y", " ", "M", "u", "n", "c", "e", "y">>,
     gender |-> <<"F">>,
     birth |-> Event(<<"1", "8", "4", "7", "-", "0", "3", "-", "2", "6">>,
                     <<"C", "h", "a", "t", "h", "a", "m", " ", "H", "i", "l", "l">>),
     death |-> NoDeath,
     burial |-> Burial(<<>>),
     marriage |-> Event(<<"1", "8", "6", "5", "-", "0", "1", "-", "2", "2">>,
                        <<"S", "m", "y", "t", "h", " ", "C", "o", "u", "n", "t", "y">>),
     children_henry_numbers |-> <<>>,
     children_count |-> None,
     children |-> <<>>]

\* Bo Cook: children_count 4, full death date
BoCook ==
    [name |-> <<"B", "o", " ", "C", "o", "o", "k">>,
     gender |-> <<"M">>,
     birth |-> Event(<<"1", "8", "5", "0">>, <<>>),
     death |-> Death(<<"1", "9", "5", "0", "-", "0", "1", "-", "0", "1">>, <<>>),
     burial |-> Burial(<<>>),
     marriage |-> Event(<<"1", "8", "7", "0", "-", "0", "5">>, <<>>),
     children_henry_numbers |-> <<>>,
     children_count |-> Some(4),
     children |-> <<>>]

SpousePool ==
    { MaryMuncey, BoCook,
      \* Cy Roe: children_henry_numbers with a repeated id, children_count 1, year-month death date
      [name |-> <<"C", "y", " ", "R", "o", "e">>,
       gender |-> <<>>,
       birth |-> Event(<<>>, <<>>),
       death |-> Death(<<"1", "9", "1", "0", "-", "0", "1">>, <<>>),
       burial |-> Burial(<<"E", "l", "m", " ", "H", "i", "l", "l">>),
       marriage |-> Event(<<>>, <<>>),
       children_henry_numbers |-> <<<<"1", ".", "1">>, <<"1", ".", "1">>, <<"1", ".", "2">>>>,
       children_count |-> Some(1),
       children |-> <<>>],
      \* Di Muncy: embedded children list of two, death place only
      [name |-> <<"D", "i", " ", "M", "u", "n", "c", "y">>,
       gender |-> <<"F">>,
       birth |-> Event(<<>>, <<"T", "r", "o", "y">>),
       death |-> Death(<<>>, <<"T", "r", "o", "y">>),
       burial |-> Burial(<<"T", "r", "o", "y">>),
       marriage |-> Event(<<>>, <<"T", "r", "o", "y">>),
       children_henry_numbers |-> <<>>,
       children_count |-> None,
       children |-> <<Child(<<"1", ".", "1">>, <<"J", "o", " ", "M", "u", "n", "c", "y">>),
                     Child(<<"1", ".", "2">>, <<"A", "l", " ", "M", "u", "n", "c", "y">>)>>] }

MaxSpouses == 2

PersonOf(i, b, d, k, s) ==
    [henry_number |-> i.henry_number, name |-> i.name, gender |-> i.gender,
     birth |-> b, parents |-> i.parents, spouses |-> s,
     death |-> d.death, burial |-> d.burial, children |-> k]

\* the edge identities, deaths and children, with at most one spouse
EdgePeople ==
    { PersonOf(i, b, d, k, s) :
          i \in Identities \cup
              \* records that lack a name or a generation id
              {
                \* no name, no gender
                [henry_number |-> <<"1">>,
                 name |-> <<>>,
                 gender |-> <<>>,
                 parents |-> Parents(<<>>, <<>>)],
                \* no henry_number
                [henry_number |-> <<>>,
                 name |-> <<"A", "n", "n", " ", "L", "e", "e">>,
                 gender |-> <<"F">>,
                 parents |-> Parents(<<>>, <<>>)] },
          b \in Births,
          d \in Deaths \cup
              {
                \* a death dict that is present with neither date nor place
                [death |-> Death(<<>>, <<>>),
                 burial |-> Burial(<<>>)],
                \* burial in the place of death, written with two spaces inside
                [death |-> Death(<<>>, <<"E", "l", "m", " ", "H", "i", "l", "l">>),
                 burial |-> Burial(<<"E", "l", "m", " ", " ", "H", "i", "l", "l">>)],
                \* burial in the place of birth, written in capitals
                [death |-> Death(<<>>, <<"O", "a", "k", "l", "e", "y">>),
                 burial |-> Burial(<<"R", "I", "C", "H", " ", "V", "A", "L", "L", "E", "Y", " ">>)] },
          k \in ChildLists \cup
              \* listed children that all lack a name or a generation id
              { <<Child(<<"1", ".", "3">>, <<>>),
                  Child(<<>>, <<"J", "o", " ", "M", "u", "n", "c", "y">>)>> },
          s \in {<<>>} \cup {<<sp>> : sp \in SpousePool} }

\* the sample; the edge records; two spouses with no death on record; the
\* lists of up to MaxSpouses spouses, each spouse listed once
BioPeople ==
    {AlbertYoungShepard} \cup EdgePeople \cup
    { PersonOf(i, b, d, k, <<MaryMuncey, [BoCook EXCEPT !.death = NoDeath]>>) :
          i \in Identities, b \in Births, d \in Deaths, k \in ChildLists } \cup
    { PersonOf(i, b, d, k, s) :
          i \in Identities, b \in Births, d \in Deaths, k \in ChildLists,
          s \in UNION { {s \in [1..n -> SpousePool] :
                             \A i, j \in 1..n : s[i] = s[j] => i = j} :
                            n \in 0..MaxSpouses } }

\* date.today() at the first call, and how many midnights may pass
Today0 == <<2026, 12, 31>>

MaxTicks == 1

NextDay(d) ==
    IF d[3] < DaysInMonth(d[1], d[2]) THEN <<d[1], d[2], d[3] + 1>>
    ELSE IF d[2] < 12 THEN <<d[1], d[2] + 1, 1>>
    ELSE <<d[1] + 1, 1, 1>>

Calendar ==
    LET F[i \in 0..MaxTicks] == IF i = 0 THEN Today0 ELSE NextDay(F[i - 1])
    IN  F

----------------------------------------------------------------------------
(* Inputs of the DateResolver specification                                *)

MaxParts == 4

RECURSIVE JoinDash(_)
JoinDash(ps) ==
    IF Len(ps) = 1 THEN ps[1] ELSE ps[1] \o <<"-">> \o JoinDash(Tail(ps))

DateTexts ==
    {<<>>} \cup
    UNION { {JoinDash(ps) :
                 ps \in [1..n -> { <<>>, <<"1", "9", "0", "0">>, <<"0", "3">>, <<"9">>,
                                   <<"1", "3">>, <<"0">>, <<"x", "x">>, <<" ", "7">> }]} :
                n \in 1..MaxParts }

\* before the call there is no return value yet
NotCalled == [called |-> FALSE, ret |-> NoDate]

NotAged == [called |-> FALSE, ret |-> NoAge]

\* before the call there is neither a rendering nor an exception
NotRendered == [called |-> FALSE, raised |-> FALSE, ret |-> ""]

\* the dates _age_on_partial is called with
AgeDates ==
    { <<>>,
      <<"x", "x">>,
      <<"0">>,
      <<"1", "8", "4", "5">>,
      <<"1", "8", "4", "5", "-", "1", "0">>,
      <<"1", "8", "4", "5", "-", "1", "0", "-", "0", "9">>,
      <<"1", "8", "6", "5">>,
      <<"1", "8", "6", "5", "-", "0", "1">>,
      <<"1", "8", "6", "5", "-", "1", "0">>,
      <<"1", "8", "6", "5", "-", "0", "1", "-", "2", "2">>,
      <<"1", "8", "6", "5", "-", "1", "0", "-", "0", "8">>,
      <<"1", "8", "6", "5", "-", "1", "0", "-", "0", "9">>,
      <<"1", "8", "6", "5", "-", "1", "1", "-", "3", "0">>,
      <<"1", "8", "6", "5", "-", "0", "2", "-", "3", "0">>,
      <<"1", "8", "6", "5", "-", "0", "1", "-", "2", "2", "-", "x">> }

----------------------------------------------------------------------------
(* DateResolver specification: one text, parsed once                       *)

InitParse ==
    /\ text \in DateTexts
    /\ parsed = NotCalled
    /\ person = <<>>
    /\ today = <<>>
    /\ result = <<>>
    /\ birth_text = <<>>
    /\ event_text = <<>>
    /\ age = NotAged
    /\ rendered = NotRendered
    /\ jsonl = <<>>
    /\ args = <<>>
    /\ lineno = <<>>
    /\ stats = <<>>
    /\ outdir_files = <<>>
    /\ combined_file = <<>>
    /\ first_combined = <<>>
    /\ stderr = <<>>
    /\ exit_code = <<>>
    /\ stdout = <<>>
    /\ william = <<>>
    /\ call = <<>>
    /\ ged = <<>>
    /\ scanned = <<>>
    /\ families = <<>>
    /\ current_fid = <<>>
    /\ inside_marr = <<>>
    /\ marr_obj = <<>>

Parse ==
    /\ ~parsed.called
    /\ parsed' = [called |-> TRUE, ret |-> _parse_partial(text)]
    /\ UNCHANGED <<text, person, today, result, birth_text, event_text,
                 age, rendered, jsonl, args, lineno, stats,
                 outdir_files, combined_file, first_combined,
                 stderr, exit_code, stdout, william, call, ged,
                 scanned, families, current_fid, inside_marr,
                 marr_obj>>

\* _format_when_iso(text): the rendering, or the IndexError it lets through
FormatWhen ==
    /\ ~rendered.called
    /\ rendered' = [called |-> TRUE,
                    raised |-> _format_when_iso_raises(text),
                    ret    |-> IF _format_when_iso_raises(text) THEN ""
                               ELSE _format_when_iso(text)]
    /\ UNCHANGED <<text, parsed, person, today, result, birth_text,
                 event_text, age, jsonl, args, lineno, stats,
                 outdir_files, combined_file, first_combined,
                 stderr, exit_code, stdout, william, call, ged,
                 scanned, families, current_fid, inside_marr,
                 marr_obj>>

NextParse == Parse \/ FormatWhen

SpecParse == InitParse /\ [][NextParse]_vars

----------------------------------------------------------------------------
(* DateResolver specification of ages: one birth date and one event date,  *)
(* their age computed once                                                 *)

InitAge ==
    /\ birth_text \in AgeDates
    /\ event_text \in AgeDates
    /\ age = NotAged
    /\ text = <<>>
    /\ parsed = NotCalled
    /\ person = <<>>
    /\ today = <<>>
    /\ result = <<>>
    /\ rendered = NotRendered
    /\ jsonl = <<>>
    /\ args = <<>>
    /\ lineno = <<>>
    /\ stats = <<>>
    /\ outdir_files = <<>>
    /\ combined_file = <<>>
    /\ first_combined = <<>>
    /\ stderr = <<>>
    /\ exit_code = <<>>
    /\ stdout = <<>>
    /\ william = <<>>
    /\ call = <<>>
    /\ ged = <<>>
    /\ scanned = <<>>
    /\ families = <<>>
    /\ current_fid = <<>>
    /\ inside_marr = <<>>
    /\ marr_obj = <<>>

AgeBetween ==
    /\ ~age.called
    /\ age' = [called |-> TRUE, ret |-> _age_on_partial(birth_text, event_text)]
    /\ UNCHANGED <<text, parsed, person, today, result, birth_text,
                 event_text, rendered, jsonl, args, lineno, stats,
                 outdir_files, combined_file, first_combined,
                 stderr, exit_code, stdout, william, call, ged,
                 scanned, families, current_fid, inside_marr,
                 marr_obj>>

NextAge == AgeBetween

SpecAge == InitAge /\ [][NextAge]_vars

----------------------------------------------------------------------------
(* BiographyBuilder specification: one record, built at any moment, any    *)
(* number of times, while the days pass                                    *)

InitBio ==
    /\ person \in BioPeople
    /\ today = Today0
    /\ result = NoResult
    /\ text = <<>>
    /\ parsed = NotCalled
    /\ birth_text = <<>>
    /\ event_text = <<>>
    /\ age = NotAged
    /\ rendered = NotRendered
    /\ jsonl = <<>>
    /\ args = <<>>
    /\ lineno = <<>>
    /\ stats = <<>>
    /\ outdir_files = <<>>
    /\ combined_file = <<>>
    /\ first_combined = <<>>
    /\ stderr = <<>>
    /\ exit_code = <<>>
    /\ stdout = <<>>
    /\ william = <<>>
    /\ call = <<>>
    /\ ged = <<>>
    /\ scanned = <<>>
    /\ families = <<>>
    /\ current_fid = <<>>
    /\ inside_marr = <<>>
    /\ marr_obj = <<>>

Build ==
    /\ result' = build_biography(person, today)
    /\ UNCHANGED <<text, parsed, person, today, birth_text, event_text,
                 age, rendered, jsonl, args, lineno, stats,
                 outdir_files, combined_file, first_combined,
                 stderr, exit_code, stdout, william, call, ged,
                 scanned, families, current_fid, inside_marr,
                 marr_obj>>

Tick ==
    /\ \E i \in 0..(MaxTicks - 1) : today = Calendar[i] /\ today' = Calendar[i + 1]
    /\ UNCHANGED <<text, parsed, person, result, birth_text, event_text,
                 age, rendered, jsonl, args, lineno, stats,
                 outdir_files, combined_file, first_combined,
                 stderr, exit_code, stdout, william, call, ged,
                 scanned, families, current_fid, inside_marr,
                 marr_obj>>

NextBio == Build \/ Tick

SpecBio == InitBio /\ [][NextBio]_vars

----------------------------------------------------------------------------
(* BatchProcessor (src/bio_batch_jsonl.py): main() on a .jsonl file.  The  *)
(* generator _iter_people_from_jsonl is consumed by the loop of emit_bios  *)
(* one line at a time, so each action reads one line and carries it        *)
(* through the loop body.                                                  *)

SEPARATOR ==
    "\n--------------------------------------------------------------------------------\n\n"

\* spaces become "_", then every character outside [\w.-] is removed
_sanitize_filename(s) ==
    SelectSeq([i \in DOMAIN s |-> IF s[i] = " " THEN "_" ELSE s[i]],
              LAMBDA c : IsLetter(c) \/ IsDigit(c) \/ c \in {"_", ".", "-"})

\* f"{person['henry_number']}_{person['name']}.txt", sanitized
FileNameOf(p) ==
    Str(_sanitize_filename(p.henry_number \o <<"_">> \o p.name
                               \o <<".", "t", "x", "t">>))

\* a JSON object with these keys: a record of a person
JsonPerson(henry_number, name, birth_date) ==
    [json   |-> "object",
     person |-> PersonOf([henry_number |-> henry_number, name |-> name,
                          gender |-> <<>>, parents |-> Parents(<<>>, <<>>)],
                         Event(birth_date, <<>>),
                         [death |-> NoDeath, burial |-> Burial(<<>>)],
                         <<>>, <<>>)]

\* the lines a file is made of
JsonLines ==
    {
      \* a line of whitespace
      [json |-> "blank", person |-> <<>>],
      \* a line json.loads rejects
      [json |-> "invalid", person |-> <<>>],
      \* a JSON value that is not an object
      [json |-> "value", person |-> <<>>],
      \* an object without a name
      JsonPerson(<<"1">>, <<>>, <<>>),
      \* a record build_biography raises on: a year-month birth date with month 13
      JsonPerson(<<"1">>, <<"A", "n", "n", " ", "L", "e", "e">>,
                 <<"1", "9", "0", "0", "-", "1", "3">>),
      \* well-formed records; the names of the first two differ in one character
      JsonPerson(<<"1">>, <<"A", "n", "n", " ", "L", "e", "e">>, <<>>),
      JsonPerson(<<"1">>, <<"A", "n", "n", "_", "L", "e", "e">>, <<>>),
      JsonPerson(<<"1", ".", "2">>, <<"T", "o", "m", " ", "L", "e", "e">>,
                 <<"1", "9", "2", "7">>) }

MaxLines == 3

\* why the loop does not emit this line: "" when it does
RejectionOf(line) ==
    IF line.json = "invalid" THEN "JSON parse error"
    ELSE IF line.json = "value" THEN "entry is not a JSON object"
    ELSE IF line.person.henry_number = <<>> \/ line.person.name = <<>>
    THEN "missing 'henry_number' or 'name'"
    ELSE IF build_biography_raises(line.person) THEN "error generating biography"
    ELSE ""

InitBatch ==
    /\ jsonl \in UNION { [1..n -> JsonLines] : n \in 0..MaxLines }
    /\ args \in [strict : BOOLEAN, outdir : BOOLEAN, combined : BOOLEAN]
    /\ lineno = 0
    /\ stats = [processed |-> 0, skipped |-> 0]
    /\ outdir_files = {}
    /\ combined_file = <<>>
    /\ first_combined = TRUE
    /\ stderr = <<>>
    /\ stdout = <<>>
    /\ exit_code = None
    /\ today = Today0
    /\ text = <<>>
    /\ parsed = NotCalled
    /\ person = <<>>
    /\ result = <<>>
    /\ birth_text = <<>>
    /\ event_text = <<>>
    /\ age = NotAged
    /\ rendered = NotRendered
    /\ william = <<>>
    /\ call = <<>>
    /\ ged = <<>>
    /\ scanned = <<>>
    /\ families = <<>>
    /\ current_fid = <<>>
    /\ inside_marr = <<>>
    /\ marr_obj = <<>>

\* a variant that goes on reading after the run has ended
Reading_on == lineno < Len(jsonl)

\* the generator has a next line
Reading == exit_code = None /\ lineno < Len(jsonl)

\* a variant that loses the count
Counted_never(st, key) == st

\* stats[key] += 1
Counted(st, key) == [st EXCEPT ![key] = @ + 1]

\* a line that strips to nothing is passed over
SkipBlank ==
    /\ Reading
    /\ jsonl[lineno + 1].json = "blank"
    /\ lineno' = lineno + 1
    /\ UNCHANGED <<text, parsed, person, today, result, birth_text,
                 event_text, age, rendered, jsonl, args, stats,
                 outdir_files, combined_file, first_combined,
                 stderr, stdout, exit_code, william, call, ged,
                 scanned, families, current_fid, inside_marr,
                 marr_obj>>

\* a malformed line or record: strict mode raises RuntimeError, which main
\* reports before sys.exit(1); otherwise the message is logged and the line
\* counted as skipped
Reject ==
    /\ Reading
    /\ jsonl[lineno + 1].json # "blank"
    /\ RejectionOf(jsonl[lineno + 1]) # ""
    /\ lineno' = lineno + 1
    /\ stderr' = Append(stderr, [lineno |-> lineno + 1,
                                 msg |-> RejectionOf(jsonl[lineno + 1])])
    /\ IF args.strict
       THEN exit_code' = Some(1) /\ UNCHANGED stats
       ELSE /\ stats' = Counted(stats, "skipped")
            /\ UNCHANGED exit_code
    /\ UNCHANGED <<text, parsed, person, today, result, birth_text,
                 event_text, age, rendered, jsonl, args,
                 outdir_files, combined_file, first_combined,
                 stdout, william, call, ged, scanned, families,
                 current_fid, inside_marr, marr_obj>>

\* a variant that ends every entry of the combined file with the separator
WrittenTo_separator_after(p, bio) ==
    /\ outdir_files' =
           IF args.outdir
           THEN {f \in outdir_files : f[1] # FileNameOf(p)} \cup {<<FileNameOf(p), bio>>}
           ELSE outdir_files
    /\ combined_file' =
           IF ~args.combined THEN combined_file
           ELSE combined_file \o <<bio, SEPARATOR>>
    /\ first_combined' = (first_combined /\ ~args.combined)
    /\ stdout' =
           IF ~args.outdir /\ ~args.combined THEN stdout \o <<bio, SEPARATOR>>
           ELSE stdout

\* what the destinations hold after bio was emitted for person p
WrittenTo(p, bio) ==
    /\ outdir_files' =
           IF args.outdir
           THEN {f \in outdir_files : f[1] # FileNameOf(p)} \cup {<<FileNameOf(p), bio>>}
           ELSE outdir_files
    /\ combined_file' =
           IF ~args.combined THEN combined_file
           ELSE IF first_combined THEN Append(combined_file, bio)
           ELSE combined_file \o <<SEPARATOR, bio>>
    /\ first_combined' = (first_combined /\ ~args.combined)
    /\ stdout' =
           IF ~args.outdir /\ ~args.combined THEN stdout \o <<bio, SEPARATOR>>
           ELSE stdout

\* a record with both keys, for which build_biography returns
EmitBio ==
    /\ Reading
    /\ jsonl[lineno + 1].json # "blank"
    /\ RejectionOf(jsonl[lineno + 1]) = ""
    /\ lineno' = lineno + 1
    /\ stats' = Counted(stats, "processed")
    /\ WrittenTo(jsonl[lineno + 1].person,
                 build_biography(jsonl[lineno + 1].person, today).text)
    /\ UNCHANGED <<text, parsed, person, today, result, birth_text,
                 event_text, age, rendered, jsonl, args, stderr,
                 exit_code, william, call, ged, scanned, families,
                 current_fid, inside_marr, marr_obj>>

\* the end of the file: outside strict mode main reports the counts
Finish ==
    /\ exit_code = None
    /\ lineno = Len(jsonl)
    /\ exit_code' = Some(0)
    /\ stderr' = IF args.strict THEN stderr
                 ELSE Append(stderr, [lineno |-> 0,
                                      msg |-> ToString(stats.processed)
                                                  \o " processadas, "
                                                  \o ToString(stats.skipped)
                                                  \o " ignoradas por erro"])
    /\ UNCHANGED <<text, parsed, person, today, result, birth_text,
                 event_text, age, rendered, jsonl, args, lineno,
                 stats, outdir_files, combined_file,
                 first_combined, stdout, william, call, ged,
                 scanned, families, current_fid, inside_marr,
                 marr_obj>>

NextBatch == SkipBlank \/ Reject \/ EmitBio \/ Finish

SpecBatch == InitBatch /\ [][NextBatch]_vars


----------------------------------------------------------------------------
(* The family register of src/main.py: dates, ages and death records      *)

\* the five layouts of DATE_FORMATS, in order: the separator and the
\* position of the year, the month and the day
DATE_FORMATS ==
    << [sep |-> "-", Y |-> 1, m |-> 2, d |-> 3],
       [sep |-> "/", Y |-> 3, m |-> 2, d |-> 1],
       [sep |-> "-", Y |-> 3, m |-> 2, d |-> 1],
       [sep |-> "/", Y |-> 1, m |-> 2, d |-> 3],
       [sep |-> "/", Y |-> 3, m |-> 1, d |-> 2] >>

\* the number a strptime directive reads from a piece, None when the piece
\* does not match it: %Y is four digits; %m is 1..12 and %d is 1..31 in one
\* or two digits; %d also accepts a space and one digit from 1 to 9
DirectiveValue(piece, directive) ==
    IF /\ directive = "d" /\ Len(piece) = 2 /\ piece[1] = " "
       /\ IsDigit(piece[2]) /\ piece[2] # "0"
    THEN Some(DigitsValue(<<piece[2]>>))
    ELSE IF piece = <<>> \/ \E i \in DOMAIN piece : ~IsDigit(piece[i]) THEN None
    ELSE IF directive = "Y"
    THEN (IF Len(piece) = 4 THEN Some(DigitsValue(piece)) ELSE None)
    ELSE IF /\ Len(piece) <= 2
            /\ 1 <= DigitsValue(piece)
            /\ DigitsValue(piece) <= (IF directive = "m" THEN 12 ELSE 31)
    THEN Some(DigitsValue(piece))
    ELSE None

\* datetime.strptime(s, fmt).date() on the pieces of s between the
\* separators of fmt, None for the ValueError
strptime(pieces, fmt) ==
    IF Len(pieces) # 3 THEN None
    ELSE DateOfInts(DirectiveValue(pieces[fmt.Y], "Y"),
                    DirectiveValue(pieces[fmt.m], "m"),
                    DirectiveValue(pieces[fmt.d], "d"))

\* for fmt in DATE_FORMATS: the first layout that reads s, from the i-th
\* on; found is what the layouts before it gave.  A bare four-digit year is
\* not tried at all
RECURSIVE TryFormats(_, _, _)
TryFormats(s, i, found) ==
    IF Len(s) = 4 /\ \A k \in 1..4 : IsDigit(s[k]) THEN None
    ELSE IF found # None \/ i > Len(DATE_FORMATS) THEN found
    ELSE TryFormats(s, i + 1,
                    strptime(SplitOn(s, DATE_FORMATS[i].sep), DATE_FORMATS[i]))

\* parse_date: None for a missing text, else what s.strip() reads as
parse_date(s) == IF s = <<>> THEN None ELSE TryFormats(Strip(s), 1, None)

\* a variant that never takes the year back
years_between_plain(start, end) == end[1] - start[1]

years_between(start, end) ==
    IF end[2] < start[2] \/ (end[2] = start[2] /\ end[3] < start[3])
    THEN end[1] - start[1] - 1
    ELSE end[1] - start[1]

safe_age(birth, event) ==
    IF birth # None /\ event # None /\ ~DateLess(event, birth)
    THEN Some(years_between(birth, event))
    ELSE None

\* DeathRecord(name, parse_date(death_date), death_place or None,
\*             safe_age(birth_date, ddate))
DeathRecord(name, birth_date, ddate, death_place) ==
    [name |-> name, death_date |-> ddate, death_place |-> death_place,
     age_at_death |-> safe_age(birth_date, ddate)]

\* the loops of collect_deaths: of each person the own death, then the
\* spouses' in the order of the marriages; only records with a death date
RECURSIVE DatedDeaths(_)
DatedDeaths(people) ==
    IF people = <<>> THEN <<>>
    ELSE (IF people[1].death # None /\ people[1].death[1].death_date # None
          THEN people[1].death ELSE <<>>)
         \o [i \in 1..Len(SelectSeq(people[1].marriages,
                        LAMBDA x : x.spouse.death # None
                                   /\ x.spouse.death[1].death_date # None)) |->
               SelectSeq(people[1].marriages,
                         LAMBDA x : x.spouse.death # None
                                    /\ x.spouse.death[1].death_date # None)[i]
                   .spouse.death[1]]
         \o DatedDeaths(Tail(people))

\* deaths.sort(key=lambda d: d.death_date): stable, so a record goes behind
\* every record whose date is not later than its own
RECURSIVE SortedByDate(_)
SortedByDate(deaths) ==
    IF deaths = <<>> THEN <<>>
    ELSE InsertAt(SortedByDate(SubSeq(deaths, 1, Len(deaths) - 1)),
                  Cardinality({i \in 1..(Len(deaths) - 1) :
                                   ~DateLess(deaths[Len(deaths)].death_date,
                                             deaths[i].death_date)}),
                  deaths[Len(deaths)])

collect_deaths(people) == SortedByDate(DatedDeaths(people))

MaxMarriages == 1

\* the date texts the calls are made with: the demo's birth date, a day
\* of a later year before the birthday, in US layout and padded, a day that
\* does not exist, a bare year, and none
RawDates ==
    { <<"1", "8", "2", "3", "-", "0", "3", "-", "0", "1">>,
      <<" ", "0", "2", "/", "2", "8", "/", "1", "8", "4", "4", " ">>,
      <<"1", "8", "4", "4", "-", "0", "2", "-", "3", "0">>,
      <<"1", "8", "9", "0">>,
      <<>> }

\* the record of a call: the operation, the date texts it parsed, whether it
\* raised, what it returned
CallOf(op, spouse_index, birth_date, event_date, place, raised, ret) ==
    [op |-> op, spouse_index |-> spouse_index, birth_date |-> birth_date,
     event_date |-> event_date, place |-> place, raised |-> raised, ret |-> ret]

\* william = Person.from_raw(name, birth_date)
InitMain ==
    /\ \E birth_date \in RawDates :
          /\ william = [name |-> Strip(<<" ", "W", "i", "l", "l", "i", "a", "m">>),
                        birth_date |-> parse_date(birth_date),
                        marriages |-> <<>>,
                        death |-> None]
          /\ call = CallOf("from_raw", 0, birth_date, <<>>, <<>>, FALSE, <<>>)
    /\ text = <<>>
    /\ parsed = NotCalled
    /\ person = <<>>
    /\ today = Today0
    /\ result = <<>>
    /\ birth_text = <<>>
    /\ event_text = <<>>
    /\ age = NotAged
    /\ rendered = NotRendered
    /\ jsonl = <<>>
    /\ args = <<>>
    /\ lineno = <<>>
    /\ stats = <<>>
    /\ outdir_files = <<>>
    /\ combined_file = <<>>
    /\ first_combined = <<>>
    /\ stderr = <<>>
    /\ exit_code = <<>>
    /\ stdout = <<>>
    /\ ged = <<>>
    /\ scanned = <<>>
    /\ families = <<>>
    /\ current_fid = <<>>
    /\ inside_marr = <<>>
    /\ marr_obj = <<>>

\* william.add_marriage(spouse_name, spouse_birth_date, marriage_date=...)
AddMarriage ==
    /\ Len(william.marriages) < MaxMarriages
    /\ \E spouse_birth_date \in {<<"1", "8", "2", "3", "-", "0", "3", "-", "0", "1">>,
                                 <<"1", "8", "2", "2">>},
          marriage_date \in RawDates :
          /\ william' =
                [william EXCEPT !.marriages = Append(@,
                    [spouse |-> [name |-> Strip(<<"A", "n", "n", " ">>),
                                 birth_date |-> parse_date(spouse_birth_date),
                                 death |-> None],
                     marriage_date |-> parse_date(marriage_date),
                     age_person_at_marriage |->
                         safe_age(william.birth_date, parse_date(marriage_date)),
                     age_spouse_at_marriage |->
                         safe_age(parse_date(spouse_birth_date),
                                  parse_date(marriage_date))])]
          /\ call' = CallOf("add_marriage", 0, spouse_birth_date, marriage_date,
                            <<>>, FALSE, <<>>)
    /\ UNCHANGED <<text, parsed, person, today, result, birth_text,
                 event_text, age, rendered, jsonl, args, lineno,
                 stats, outdir_files, combined_file,
                 first_combined, stderr, exit_code, stdout, ged,
                 scanned, families, current_fid, inside_marr,
                 marr_obj>>

\* william.set_death(death_date, death_place)
SetDeath ==
    /\ \E death_date \in RawDates, death_place \in {<<"T", "r", "o", "y">>} :
          /\ william' =
                [william EXCEPT !.death =
                    Some(DeathRecord(william.name, william.birth_date,
                                     parse_date(death_date), death_place))]
          /\ call' = CallOf("set_death", 0, <<>>, death_date, death_place,
                            FALSE, <<>>)
    /\ UNCHANGED <<text, parsed, person, today, result, birth_text,
                 event_text, age, rendered, jsonl, args, lineno,
                 stats, outdir_files, combined_file,
                 first_combined, stderr, exit_code, stdout, ged,
                 scanned, families, current_fid, inside_marr,
                 marr_obj>>

\* william.set_spouse_death(spouse_index, death_date, death_place): an index
\* outside the list raises IndexError before anything is written
SetSpouseDeath ==
    /\ \E spouse_index \in -1..MaxMarriages :
          IF spouse_index < 0 \/ spouse_index >= Len(william.marriages)
          THEN /\ call' = CallOf("set_spouse_death", spouse_index, <<>>,
                                 <<>>, <<>>, TRUE, <<>>)
               /\ UNCHANGED william
          ELSE \E death_date \in RawDates, death_place \in {<<"T", "r", "o", "y">>} :
               /\ william' =
                     [william EXCEPT !.marriages[spouse_index + 1].spouse.death =
                         Some(DeathRecord(
                                  william.marriages[spouse_index + 1].spouse.name,
                                  william.marriages[spouse_index + 1].spouse.birth_date,
                                  parse_date(death_date), death_place))]
               /\ call' = CallOf("set_spouse_death", spouse_index, <<>>,
                                 death_date, death_place, FALSE, <<>>)
    /\ UNCHANGED <<text, parsed, person, today, result, birth_text,
                 event_text, age, rendered, jsonl, args, lineno,
                 stats, outdir_files, combined_file,
                 first_combined, stderr, exit_code, stdout, ged,
                 scanned, families, current_fid, inside_marr,
                 marr_obj>>

\* collect_deaths(people) with people = [william]
CollectDeaths ==
    /\ call' = CallOf("collect_deaths", 0, <<>>, <<>>, <<>>, FALSE,
                      collect_deaths(<<william>>))
    /\ UNCHANGED <<william, text, parsed, person, today, result,
                 birth_text, event_text, age, rendered, jsonl,
                 args, lineno, stats, outdir_files, combined_file,
                 first_combined, stderr, exit_code, stdout, ged,
                 scanned, families, current_fid, inside_marr,
                 marr_obj>>

NextMain == AddMarriage \/ SetDeath \/ SetSpouseDeath \/ CollectDeaths

SpecMain == InitMain /\ [][NextMain]_vars

----------------------------------------------------------------------------
(* The family scanner of src/gedcom_to_json.py: parse_families_raw         *)

\* the lines of the file: two family records (the second in lower case with
\* a trailing blank), members, a marriage with its date and place, another
\* level-1 event and another level-0 record
GedLines ==
    { <<"0", " ", "@", "F", "1", "@", " ", "F", "A", "M">>,
      <<"0", " ", "@", "f", "2", "@", " ", "f", "a", "m", " ">>,
      <<"1", " ", "H", "U", "S", "B", " ", "@", "I", "1", "@">>,
      <<"1", " ", "W", "I", "F", "E", " ", "@", "I", "2", "@">>,
      <<" ", "1", " ", "C", "H", "I", "L", " ", "@", "I", "3", "@">>,
      <<"1", " ", "M", "A", "R", "R">>,
      <<"2", " ", "D", "A", "T", "E", " ", "1", " ", "J", "A", "N", " ", "1", "9", "0", "0">>,
      <<"2", " ", "P", "L", "A", "C", " ", "T", "r", "o", "y", " ">>,
      <<"1", " ", "D", "I", "V">>,
      <<"0", " ", "@", "I", "1", "@", " ", "I", "N", "D", "I">> }

MaxGedLines == 4

\* (@F\d+@) and (@I\d+@) under re.IGNORECASE
IsXref(tok, letter) ==
    /\ Len(tok) >= 4
    /\ tok[1] = "@" /\ UpperChar(tok[2]) = letter /\ tok[Len(tok)] = "@"
    /\ \A i \in 3..(Len(tok) - 1) : IsDigit(tok[i])

\* which of the regular expressions the line matches, with the group it
\* captures; tokens are the pieces of the line between whitespace.
\* FAM_START_RE allows no blank before the level; DATE_RE and PLAC_RE
\* capture the rest of the line, stripped
LineKind(line, tokens) ==
    IF /\ Len(tokens) = 3 /\ line[1] = "0" /\ tokens[1] = <<"0">>
       /\ IsXref(tokens[2], "F") /\ Upper(tokens[3]) = <<"F", "A", "M">>
    THEN [kind |-> "FAM", group |-> tokens[2]]
    ELSE IF /\ Len(tokens) = 3 /\ tokens[1] = <<"1">> /\ IsXref(tokens[3], "I")
            /\ Upper(tokens[2]) \in {<<"H", "U", "S", "B">>, <<"W", "I", "F", "E">>,
                                     <<"C", "H", "I", "L">>}
    THEN [kind |-> Str(Upper(tokens[2])), group |-> tokens[3]]
    ELSE IF /\ Len(tokens) = 2 /\ tokens[1] = <<"1">>
            /\ Upper(tokens[2]) = <<"M", "A", "R", "R">>
    THEN [kind |-> "MARR", group |-> <<>>]
    ELSE IF /\ Len(tokens) >= 3 /\ tokens[1] = <<"2">>
            /\ Upper(tokens[2]) \in {<<"D", "A", "T", "E">>, <<"P", "L", "A", "C">>}
    THEN [kind |-> Str(Upper(tokens[2])),
          group |-> Strip(LStripChars(LStripChars(LStripChars(LStripChars(
                        line, Whitespace), {"2"}), Whitespace),
                        {"D", "A", "T", "E", "P", "L", "C", "d", "a", "t", "e", "p", "l", "c"}))]
    ELSE IF Len(tokens) >= 2 /\ tokens[1] = <<"1">>
    THEN [kind |-> "level 1", group |-> <<>>]
    ELSE [kind |-> "other", group |-> <<>>]

InitGed ==
    /\ ged \in UNION { [1..n -> GedLines] : n \in 0..MaxGedLines }
    /\ scanned = 0
    /\ families = <<>>
    /\ current_fid = None
    /\ inside_marr = FALSE
    /\ marr_obj = None
    /\ text = <<>>
    /\ parsed = NotCalled
    /\ person = <<>>
    /\ today = Today0
    /\ result = <<>>
    /\ birth_text = <<>>
    /\ event_text = <<>>
    /\ age = NotAged
    /\ rendered = NotRendered
    /\ jsonl = <<>>
    /\ args = <<>>
    /\ lineno = <<>>
    /\ stats = <<>>
    /\ outdir_files = <<>>
    /\ combined_file = <<>>
    /\ first_combined = <<>>
    /\ stderr = <<>>
    /\ exit_code = <<>>
    /\ stdout = <<>>
    /\ william = <<>>
    /\ call = <<>>

\* the body of the loop for a line that matched m
ScanLine(m) ==
    IF m.kind = "FAM"
    THEN /\ current_fid' = m.group
         /\ families' = [fid \in DOMAIN families \cup {m.group} |->
                            IF fid = m.group
                            THEN [husband |-> None, wife |-> None,
                                  children |-> <<>>, marriage |-> None]
                            ELSE families[fid]]
         /\ inside_marr' = FALSE
         /\ marr_obj' = None
    ELSE IF current_fid = None
    THEN UNCHANGED <<current_fid, families, inside_marr, marr_obj>>
    ELSE IF m.kind = "HUSB"
    THEN /\ families' = [families EXCEPT ![current_fid].husband = m.group]
         /\ UNCHANGED <<current_fid, inside_marr, marr_obj>>
    ELSE IF m.kind = "WIFE"
    THEN /\ families' = [families EXCEPT ![current_fid].wife = m.group]
         /\ UNCHANGED <<current_fid, inside_marr, marr_obj>>
    ELSE IF m.kind = "CHIL"
    THEN /\ families' = [families EXCEPT ![current_fid].children = Append(@, m.group)]
         /\ UNCHANGED <<current_fid, inside_marr, marr_obj>>
    ELSE IF m.kind = "MARR"
    THEN /\ inside_marr' = TRUE
         /\ marr_obj' = Some([date |-> None, place |-> None])
         /\ UNCHANGED <<current_fid, families>>
    ELSE IF inside_marr /\ m.kind = "DATE"
    THEN /\ marr_obj' = Some([marr_obj[1] EXCEPT !.date = m.group])
         /\ families' = [families EXCEPT ![current_fid].marriage = marr_obj']
         /\ UNCHANGED <<current_fid, inside_marr>>
    ELSE IF inside_marr /\ m.kind = "PLAC"
    THEN /\ marr_obj' = Some([marr_obj[1] EXCEPT !.place = m.group])
         /\ families' = [families EXCEPT ![current_fid].marriage = marr_obj']
         /\ UNCHANGED <<current_fid, inside_marr>>
    ELSE IF inside_marr /\ m.kind = "level 1"
    THEN /\ inside_marr' = FALSE
         /\ marr_obj' = None
         /\ UNCHANGED <<current_fid, families>>
    ELSE UNCHANGED <<current_fid, families, inside_marr, marr_obj>>

\* for line in f: one pass of the loop
ReadLine ==
    /\ scanned < Len(ged)
    /\ scanned' = scanned + 1
    /\ ScanLine(LineKind(ged[scanned + 1], SplitWs(ged[scanned + 1])))
    /\ UNCHANGED <<ged, text, parsed, person, today, result, birth_text, event_text,
                   age, rendered, jsonl, args, lineno, stats, outdir_files,
                   combined_file, first_combined, stderr, exit_code, stdout,
                   william, call>>

NextGed == ReadLine

SpecGed == InitGed /\ [][NextGed]_vars
----------------------------------------------------------------------------
(* Claims about the DateResolver                                           *)

\* the three shapes YYYY, YYYY-MM, YYYY-MM-DD: one to three dash-separated
\* pieces, every one of them a number
ThreeShapes(s) ==
    /\ s # <<>>
    /\ LET parts == SplitOn(s, "-")
       IN  /\ Len(parts) \in 1..3
           /\ \A i \in DOMAIN parts : PyInt(parts[i]) # None

(* C7: parsePartial accepts exactly the shapes YYYY, YYYY-MM and YYYY-MM-DD: *)
(* a text of one of the three shapes yields its year, and every other text   *)
(* (more than three dash-separated pieces, a non-numeric piece, empty text)  *)
(* yields "no date"; a month is returned only if the text has a second       *)
(* piece and a day only if it has a third.                                   *)
C7_ParsePartialThreeShapesOnly ==
    parsed.called =>
        LET parts == SplitOn(text, "-")
        IN  /\ ThreeShapes(text) => parsed.ret.y # None
            /\ ~ThreeShapes(text) => parsed.ret = NoDate
            /\ parsed.ret.m # None => Len(parts) >= 2
            /\ parsed.ret.d # None => Len(parts) >= 3

----------------------------------------------------------------------------
(* Claims about build_biography                                            *)

Built == result.status = "ok"

(* C1: build_biography never raises for degenerate data: for every record  *)
(* with a generation id and a name, whatever optional fields are absent    *)
(* and whatever the date strings are (a month of 13 in a year-month date   *)
(* included), the call returns a text.                                     *)
C1_BuildNeverRaises == result.status \in {"none", "ok"}

(* C2: building a biography twice from the same record yields the same     *)
(* text whatever the moment of each call: a later build of the record      *)
(* returns the text the earlier build returned.                            *)
C2_SameRecordSameText ==
    [][(Built /\ result'.status = "ok") => result'.text = result.text]_vars

\* the distinct non-blank ids of a children_henry_numbers list
DistinctIds(ids) ==
    {Strip(ids[k]) : k \in {j \in DOMAIN ids : Strip(ids[j]) # <<>>}}

(* C3: a non-empty children_henry_numbers list comes first in the priority *)
(* chain: whenever a marriage carries one, its reported count is the       *)
(* number of distinct ids in the list, whatever children_count, embedded   *)
(* children list or surname match the marriage also has.                   *)
C3_HenryListComesFirst ==
    Built =>
        \A i \in DOMAIN person.spouses :
            person.spouses[i].children_henry_numbers # <<>> =>
                result.blocks[i].n =
                    Cardinality(DistinctIds(person.spouses[i].children_henry_numbers))

\* the subject (0) and the spouses (1..n) in encounter order
DeathDateOf(k) ==
    IF k = 0 THEN person.death.date ELSE person.spouses[k].death.date

DeathTupleOf(k) ==
    IF k = 0 THEN _death_tuple(person) ELSE _death_tuple(person.spouses[k])

\* whose death an entry of the death block tells: the first one in
\* encounter order with that entry
SourceOf(entry) ==
    CHOOSE k \in 0..Len(person.spouses) :
        /\ DeathTupleOf(k) = entry
        /\ \A j \in 0..(k - 1) : DeathTupleOf(j) # entry

\* a date of any accepted granularity
Dated(p) == p.y # None

\* date a is later than date b as far as the components both carry tell
LaterThan(a, b) ==
    \/ a.y[1] > b.y[1]
    \/ a.y[1] = b.y[1] /\ a.m # None /\ b.m # None /\ a.m[1] > b.m[1]
    \/ a.y[1] = b.y[1] /\ a.m # None /\ b.m # None /\ a.m[1] = b.m[1]
           /\ a.d # None /\ b.d # None /\ a.d[1] > b.d[1]

InOrder(first, second) ==
    LET a == _parse_partial(DeathDateOf(SourceOf(first)))
        b == _parse_partial(DeathDateOf(SourceOf(second)))
    IN  /\ Dated(b) => Dated(a)
        /\ (Dated(a) /\ Dated(b)) => ~LaterThan(a, b)
        /\ (~Dated(a) /\ ~Dated(b)) => SourceOf(first) <= SourceOf(second)

(* C4: the death sentences of the death block are in ascending order of    *)
(* death date, a date of any accepted granularity (year, year-month, full) *)
(* counting as a date; sentences with no death date come after all dated   *)
(* ones and keep their encounter order.                                    *)
C4_DeathsAscendingByAnyDate ==
    Built =>
        \A i, j \in DOMAIN result.death_entries :
            i < j => InOrder(result.death_entries[i], result.death_entries[j])

\* a date text that parses to no date is replaced by no date
Scrub(date) == IF _parse_partial(date) = NoDate THEN <<>> ELSE date

ScrubSpouse(sp) ==
    [sp EXCEPT !.birth.date = Scrub(@), !.death.date = Scrub(@),
               !.marriage.date = Scrub(@)]

\* the record with every unparsable date text replaced by None
WithoutUnparsableDates(p) ==
    [p EXCEPT !.birth.date = Scrub(@), !.death.date = Scrub(@),
              !.spouses = [i \in DOMAIN p.spouses |-> ScrubSpouse(p.spouses[i])]]

(* C5: an unparsable date string is treated as absent everywhere: the      *)
(* biography of a record equals the biography of the same record with      *)
(* every unparsable date (death.date in particular) replaced by no date.   *)
C5_UnparsableDateIsAbsent ==
    Built => result.text = build_biography(WithoutUnparsableDates(person), today).text

SampleBuilt == person = AlbertYoungShepard /\ Built

SampleHeader == "\t1.1 Albert Young Shepard"

SampleBirthSentence ==
    "Albert Young Shepard was born on 9 October 1845, in Rich Valley, "
        \o "Smyth County, Virginia, USA. He was the son of William R Shepard "
        \o "and Asseneth Lucinda Chenault."

SampleMarriageSentence ==
    "They were married on 22 January 1865 in Smyth County, Virginia, USA; "
        \o "he was 19 and she was 17."

SampleDeathSentence ==
    "Albert Young Shepard died on 16 March 1945 in Oakley, Cassia County, "
        \o "Idaho, USA, at the age of 99."

SampleBurialClause ==
    " He was buried in Oakley Cemetery, Oakley, Cassia County, Idaho, USA."

\* the sample's header, birth sentence, single spouse block with its age
\* clause, and single death entry
SampleCommon ==
    /\ result.header = SampleHeader
    /\ result.parts[1] = SampleBirthSentence
    /\ Len(result.blocks) = 1
    /\ result.blocks[1].marriage = SampleMarriageSentence
    /\ Len(result.death_entries) = 1

(* C6 as claimed: the sample record produces the header "1.1 Albert Young  *)
(* Shepard", a birth sentence, one spouse block with an age clause, a      *)
(* single death sentence with no burial clause, and a descendant list of   *)
(* four rows.                                                              *)
C6_SampleAsClaimed ==
    SampleBuilt =>
        /\ SampleCommon
        /\ result.death_entries[1][2] = SampleDeathSentence
        /\ Len(result.children_block) = 4

(* C6 as amended: the sample record produces the header "1.1 Albert Young  *)
(* Shepard" (behind one tab), a birth sentence, one spouse block with an   *)
(* age clause, a single death sentence followed by its burial clause (the  *)
(* burial place, Oakley Cemetery, is not the death place), and a           *)
(* descendant list of three rows (the fourth listed child has no name).    *)
C6_SampleAmended ==
    SampleBuilt =>
        /\ SampleCommon
        /\ result.death_entries[1][2] = SampleDeathSentence \o SampleBurialClause
        /\ result.children_block =
               <<"\t\t1.1.1 Alice Shepard", "\t\t1.1.2 Marget Matilda Shepard",
                 "\t\t1.1.3 Marinda E. Shepard">>

C6_Witness == SampleBuilt /\ result.text # ""

(* C8: when a marriage's attributed child count is zero, the spouse block  *)
(* still contains a children-attribution sentence ("no records of          *)
(* children" or "no specific records link children to this union").        *)
C8_ZeroCountStillHasChildrenSentence ==
    Built =>
        \A i \in DOMAIN person.spouses :
            result.blocks[i].n = 0 => result.blocks[i].children # ""

NoChildSignal(sp) ==
    /\ sp.children_henry_numbers = <<>>
    /\ sp.children_count = None
    /\ sp.children = <<>>

\* the listed children whose surname has the spouse's Soundex-style code
SoundexMatches(children, spouse_name) ==
    IF _surname_key(spouse_name) = <<>> THEN 0
    ELSE Cardinality({k \in DOMAIN children :
                         /\ children[k].name # <<>>
                         /\ _surname_key(children[k].name) = _surname_key(spouse_name)})

(* C9: when a marriage carries no explicit child signal, its count is the  *)
(* number of the subject's listed children whose surname has the same      *)
(* 4-character Soundex-style code as the spouse's surname (Muncey / Muncy  *)
(* match); an unencodable spouse surname gives 0.                          *)
C9_HeuristicMatchesBySoundex ==
    Built =>
        \A i \in DOMAIN person.spouses :
            NoChildSignal(person.spouses[i]) =>
                result.blocks[i].n =
                    SoundexMatches(person.children, person.spouses[i].name)

\* the wording of the children clause for a count
AtLeast(n) ==
    IF n = 1 THEN "From this marriage, they had at least 1 child."
    ELSE "From this marriage, they had at least " \o ToString(n) \o " children."

----------------------------------------------------------------------------
(* Claims about the clauses of the biography                               *)

StartsWith(s, prefix) ==
    Len(s) >= Len(prefix) /\ SubSeq(s, 1, Len(prefix)) = prefix

EndsWith(s, suffix) ==
    Len(s) >= Len(suffix) /\ SubSeq(s, Len(s) - Len(suffix) + 1, Len(s)) = suffix

Contains(s, sub) ==
    \E i \in 1..(Len(s) - Len(sub) + 1) : SubSeq(s, i, i + Len(sub) - 1) = sub

\* the name a sentence calls a person by
NameOf(p) == IF Strip(p.name) = <<>> THEN "Unknown" ELSE Str(Strip(p.name))

\* an English rendering of a parsed date that has at least a year and a month
OnDate(d) ==
    IF d.d # None
    THEN ToString(d.d[1]) \o " " \o _MONTHS_EN[d.m[1] + 1] \o " " \o ToString(d.y[1])
    ELSE _MONTHS_EN[d.m[1] + 1] \o " " \o ToString(d.y[1])

\* the birth clause up to and excluding its place, as the claim words it
ClaimedBorn(p, d) ==
    IF d.m = None THEN NameOf(p) \o " was born in " \o ToString(d.y[1])
    ELSE NameOf(p) \o " was born on " \o OnDate(d)

(* C11: in the birth clause a full or year-month birth date is introduced  *)
(* with "on {date}" and a year-only birth date with "in {year}"; with a    *)
(* date, the place, when present, follows as ", in {place}".               *)
C11_BirthYearOnlyUsesIn ==
    (Built /\ Truthy(_parse_partial(person.birth.date).y)) =>
        StartsWith(result.parts[1],
                   ClaimedBorn(person, _parse_partial(person.birth.date))
                       \o (IF person.birth.place # <<>>
                           THEN ", in " \o Str(person.birth.place) \o "."
                           ELSE "."))

\* the death carries at least a date or a place
DeathKnown(p) == p.death.date # <<>> \/ p.death.place # <<>>

HasParents(p) == p.parents.father # <<>> \/ p.parents.mother # <<>>

(* C12: in the parentage clause the verb is "was" exactly when the         *)
(* subject's own death is known (it has at least a date or a place) and    *)
(* "is" otherwise; a death field that is present but carries neither date  *)
(* nor place selects "is".                                                 *)
C12_ParentageVerbFollowsKnownDeath ==
    (Built /\ HasParents(person)) =>
        /\ Contains(result.parts[1], " was the ") <=> DeathKnown(person)
        /\ Contains(result.parts[1], " is the ") <=> ~DeathKnown(person)

(* C13: build_biography validates its input: when the record lacks a       *)
(* non-empty generation identifier or a non-empty name, the call signals a *)
(* validation error instead of returning a biography text.                 *)
C13_BuildValidatesIdAndName ==
    (person.henry_number = <<>> \/ person.name = <<>>) => result.status # "ok"

\* the parts of the biography that are absence sentences
AbsenceParts ==
    {i \in DOMAIN result.parts : StartsWith(result.parts[i], "No records of ")}

(* C14: every biography contains at most one absence sentence: "no records *)
(* of marriage, children or death", "no records of marriage or children",  *)
(* the merged no-death sentence naming subject and spouses, and the        *)
(* standalone no-death sentence never occur together, for every            *)
(* combination of spouses, children and death data.                        *)
C14_AtMostOneAbsenceSentence == Built => Cardinality(AbsenceParts) <= 1

\* a subject with no spouse, no child and no death, whose biography could
\* have carried two absence sentences and carries one
C14_Witness ==
    /\ Built
    /\ person.spouses = <<>> /\ person.children = <<>> /\ ~DeathKnown(person)
    /\ Cardinality(AbsenceParts) = 1

NoMarriageChildrenDeath ==
    "No records of marriage, children or death have been found to date."

NoMarriageChildren ==
    "No records of marriage or children have been found to date."

Childless == person.spouses = <<>> /\ person.children = <<>>

Listable(children) ==
    SelectSeq(children, LAMBDA ch : ch.henry_number # <<>> /\ Strip(ch.name) # <<>>)

\* "{tabs}{generation_id} {name}", one tab for each dot of the id
ClaimedRow(ch) ==
    Tabs(Cardinality({i \in DOMAIN ch.henry_number : ch.henry_number[i] = "."}))
        \o Str(ch.henry_number) \o " " \o Str(Strip(ch.name))

\* the header line and the rows, as they end the biography
ClaimedBlock(children) ==
    "Their children were:\n\n"
        \o Join([i \in DOMAIN Listable(children) |-> ClaimedRow(Listable(children)[i])],
                "\n")

HasBlock == Contains(result.text, "Their children were:")

----------------------------------------------------------------------------
(* Claims about ages                                                       *)

\* the integers of a text of shape YYYY, YYYY-MM or YYYY-MM-DD
IntsOf(s) == [i \in DOMAIN SplitOn(s, "-") |-> PyInt(SplitOn(s, "-")[i])[1]]

\* the text is a date of one of the three shapes, with a year
HasYear(s) == ThreeShapes(s) /\ IntsOf(s)[1] # 0

\* the text is a calendar date YYYY-MM-DD
FullDate(s) ==
    /\ HasYear(s)
    /\ Len(IntsOf(s)) = 3
    /\ IntsOf(s)[1] \in 1..9999
    /\ IntsOf(s)[2] \in 1..12
    /\ IntsOf(s)[3] \in 1..DaysInMonth(IntsOf(s)[1], IntsOf(s)[2])

(* C17: _age_on_partial marks the age as approximate exactly when at least *)
(* one of the two dates lacks day-level precision (given both have a       *)
(* year), marks it exact when both are full dates, and returns (None,      *)
(* False) when either date lacks a year.                                   *)
C17_ApproximateIffNotBothFull ==
    age.called =>
        /\ (~HasYear(birth_text) \/ ~HasYear(event_text)) => age.ret = NoAge
        /\ (HasYear(birth_text) /\ HasYear(event_text)) =>
               /\ age.ret.age # None
               /\ age.ret.approx <=> ~(FullDate(birth_text) /\ FullDate(event_text))

\* the text carries a month number after its year
CarriesMonth(s) ==
    Len(SplitOn(s, "-")) >= 2 /\ PyInt(SplitOn(s, "-")[2]) # None

YearOf(s) == PyInt(SplitOn(s, "-")[1])[1]

MonthOf(s) == PyInt(SplitOn(s, "-")[2])[1]

DayOf(s) == PyInt(SplitOn(s, "-")[3])[1]

\* the event's (month, day) precedes the birth's (month, day)
EarlierInYear(birth, event) ==
    \/ MonthOf(event) < MonthOf(birth)
    \/ MonthOf(event) = MonthOf(birth) /\ DayOf(event) < DayOf(birth)

ClaimedAge(birth, event) ==
    IF FullDate(birth) /\ FullDate(event)
    THEN IF EarlierInYear(birth, event)
         THEN YearOf(event) - YearOf(birth) - 1
         ELSE YearOf(event) - YearOf(birth)
    ELSE IF CarriesMonth(birth) /\ CarriesMonth(event)
            /\ MonthOf(event) < MonthOf(birth)
    THEN YearOf(event) - YearOf(birth) - 1
    ELSE YearOf(event) - YearOf(birth)

(* C18: the age value _age_on_partial returns is: for two full dates, the  *)
(* event year minus the birth year, minus one when the event's (month,     *)
(* day) precedes the birth's (month, day); otherwise the plain year        *)
(* difference, minus one only when both dates carry a month and the        *)
(* event's month is strictly earlier than the birth's month (the same      *)
(* month never decrements).                                                *)
C18_AgeValue ==
    (age.called /\ age.ret.age # None) =>
        age.ret.age[1] = ClaimedAge(birth_text, event_text)

\* two full dates, the event earlier in the year than the birth
C18_Witness ==
    /\ age.called
    /\ FullDate(birth_text) /\ FullDate(event_text)
    /\ EarlierInYear(birth_text, event_text)
    /\ YearOf(event_text) > YearOf(birth_text)
    /\ age.ret.age = Some(YearOf(event_text) - YearOf(birth_text) - 1)

----------------------------------------------------------------------------
(* Claims about the death block                                            *)

\* the subject for 0, the k-th listed spouse for k
PersonAt(k) == IF k = 0 THEN person ELSE person.spouses[k]

\* the person whose death an entry of the death block tells
Deceased(entry) == PersonAt(SourceOf(entry))

HasBurialClause(sentence) == Contains(sentence, " was buried in ")

\* a place with its letters in lower case and its whitespace removed
Squeezed(place) == Lower(SelectSeq(place, LAMBDA c : c \notin Whitespace))

\* a place with its letters in lower case and the whitespace around it removed
Trimmed(place) == Lower(Strip(place))

\* the death sentence of q has a burial clause exactly when q's burial
\* place is given and is neither the death place nor the birth place,
\* whitespace left out of the comparison
BurialClauseIffOtherPlace(sentence, q) ==
    HasBurialClause(sentence) <=>
        /\ q.burial.place # <<>>
        /\ Squeezed(q.burial.place) # Squeezed(q.death.place)
        /\ Squeezed(q.burial.place) # Squeezed(q.birth.place)

(* C19: a death sentence carries a burial clause exactly when a burial     *)
(* place is given and it differs, under case-insensitive and               *)
(* whitespace-insensitive comparison, from both the death place and the    *)
(* birth place of that person.                                             *)
C19_BurialClauseIffOtherPlace ==
    Built =>
        \A i \in DOMAIN result.death_entries :
            BurialClauseIffOtherPlace(result.death_entries[i][2],
                                      Deceased(result.death_entries[i]))

\* the same with only the whitespace around a place left out of the
\* comparison; the clause ends the sentence and names the burial place as
\* it is written
BurialClauseIffOtherTrimmedPlace(sentence, q) ==
    /\ HasBurialClause(sentence) <=>
           /\ q.burial.place # <<>>
           /\ Trimmed(q.burial.place) # Trimmed(q.death.place)
           /\ Trimmed(q.burial.place) # Trimmed(q.birth.place)
    /\ HasBurialClause(sentence) =>
           EndsWith(sentence, " was buried in " \o Str(q.burial.place) \o ".")

(* C19, amended: a death sentence carries a burial clause exactly when a   *)
(* burial place is given and it differs, ignoring letter case and the      *)
(* whitespace around the place but not the whitespace inside it, from both *)
(* the death place and the birth place of that person.                     *)
C19_BurialClauseIffOtherTrimmedPlace ==
    Built =>
        \A i \in DOMAIN result.death_entries :
            BurialClauseIffOtherTrimmedPlace(result.death_entries[i][2],
                                             Deceased(result.death_entries[i]))

\* the subject's burial place is the death place written with other
\* whitespace inside, and the death sentence has a burial clause
C19_Witness ==
    /\ Built
    /\ person.burial.place # <<>>
    /\ Trimmed(person.burial.place) # Trimmed(person.death.place)
    /\ Squeezed(person.burial.place) = Squeezed(person.death.place)
    /\ \E i \in DOMAIN result.death_entries :
           /\ SourceOf(result.death_entries[i]) = 0
           /\ HasBurialClause(result.death_entries[i][2])

\* the subject and every spouse, by name, in listed order
EveryName ==
    <<NameOf(person)>> \o [i \in DOMAIN person.spouses |-> NameOf(person.spouses[i])]

\* "A and B" for two names, "A, B, and C" for more
ClaimedNames(names) ==
    IF Len(names) = 2 THEN names[1] \o " and " \o names[2]
    ELSE Join(SubSeq(names, 1, Len(names) - 1), ", ")
             \o ", and " \o names[Len(names)]

NoDeathParts ==
    {i \in DOMAIN result.parts :
         \/ StartsWith(result.parts[i], "No records of death ")
         \/ result.parts[i] = NoMarriageChildrenDeath}

(* C20: when no death sentence was collected for the subject or any spouse *)
(* and at least one spouse exists, the biography contains exactly one      *)
(* merged no-records-of-death sentence, which names the subject and every  *)
(* spouse in listed order ("A and B" for two names, "A, B, and C" for      *)
(* more); when at least one death sentence was collected, no death-absence *)
(* sentence is emitted for anyone.                                         *)
C20_MergedDeathAbsence ==
    Built =>
        /\ (result.death_entries = <<>> /\ person.spouses # <<>>) =>
               /\ Cardinality(NoDeathParts) = 1
               /\ \A i \in NoDeathParts :
                      /\ StartsWith(result.parts[i],
                                    "No records of death have been found to date for "
                                        \o ClaimedNames(EveryName))
                      /\ \/ SubSeq(result.parts[i],
                                   Len("No records of death have been found to date for "
                                           \o ClaimedNames(EveryName)) + 1,
                                   Len(result.parts[i])) = "."
                         \/ StartsWith(SubSeq(result.parts[i],
                                   Len("No records of death have been found to date for "
                                           \o ClaimedNames(EveryName)) + 1,
                                   Len(result.parts[i])), " as of ")
        /\ result.death_entries # <<>> => NoDeathParts = {}

\* a subject with two spouses and no death sentence for any of the three
C20_Witness ==
    /\ Built
    /\ Len(person.spouses) >= 2
    /\ result.death_entries = <<>>
    /\ Cardinality(NoDeathParts) = 1

----------------------------------------------------------------------------
(* Claims about the rendering of dates                                     *)

\* the text is a year and a month of the calendar, YYYY-MM
YearMonth(s) ==
    HasYear(s) /\ Len(IntsOf(s)) = 2 /\ IntsOf(s)[2] \in 1..12

\* the text is a year, YYYY
YearOnly(s) == HasYear(s) /\ Len(IntsOf(s)) = 1

MonthYear(m, y) == _MONTHS_EN[m + 1] \o " " \o ToString(y)

\* the i-th dash-separated piece of the text as a number, 0 when there is
\* no such piece or it is not a number
Component(s, i) ==
    IF i <= Len(SplitOn(s, "-")) /\ PyInt(SplitOn(s, "-")[i]) # None
    THEN PyInt(SplitOn(s, "-")[i])[1]
    ELSE 0

\* the renderings that show only valid components of the text
ValidRenderings(s) ==
    {ToString(Component(s, 1))}
        \cup {MonthYear(m, Component(s, 1)) : m \in {Component(s, 2)} \cap 1..12}
        \cup {ToString(d) \o " " \o MonthYear(m, Component(s, 1)) :
                  <<m, d>> \in {<<Component(s, 2), Component(s, 3)>>}
                                   \cap {md \in (1..12) \X (1..31) :
                                             md[2] <= DaysInMonth(Component(s, 1), md[1])}}

(* C21: _format_when_iso produces "D Month YYYY" for a full date, "Month   *)
(* YYYY" for a year-month date and "YYYY" for a year-only date, using the  *)
(* fixed English month table, and never outputs a day or month that is not *)
(* a valid component of the input.                                         *)
C21_RenderThreeGranularities ==
    rendered.called =>
        /\ ~rendered.raised
        /\ FullDate(text) =>
               rendered.ret = ToString(IntsOf(text)[3]) \o " "
                                  \o MonthYear(IntsOf(text)[2], IntsOf(text)[1])
        /\ YearMonth(text) =>
               rendered.ret = MonthYear(IntsOf(text)[2], IntsOf(text)[1])
        /\ YearOnly(text) => rendered.ret = ToString(IntsOf(text)[1])
        /\ rendered.ret # "" => rendered.ret \in ValidRenderings(text)

----------------------------------------------------------------------------
(* Claims about the BatchProcessor                                         *)

\* the lines read so far that are records or unparsable lines
Encountered == {i \in 1..lineno : jsonl[i].json # "blank"}

\* the lines read so far that are well-formed records
Accepted == {i \in 1..lineno : jsonl[i].json = "object"
                                  /\ jsonl[i].person.henry_number # <<>>
                                  /\ jsonl[i].person.name # <<>>
                                  /\ ~build_biography_raises(jsonl[i].person)}

\* the messages logged about a line
Logged == {i \in DOMAIN stderr : stderr[i].lineno > 0}

\* the biographies written to the combined file or to standard output
Entries(writes) == SelectSeq(writes, LAMBDA w : w # SEPARATOR)

(* C22: in lenient mode no input record is silently dropped: every record  *)
(* or unparsable line read was either processed, with a biography emitted, *)
(* or counted as skipped with a logged message, so processed + skipped     *)
(* equals the number of records and unparsable lines encountered.          *)
C22_LenientCountsEveryRecord ==
    (args.strict = FALSE) =>
        /\ stats.processed + stats.skipped = Cardinality(Encountered)
        /\ stats.processed = Cardinality(Accepted)
        /\ stats.skipped = Cardinality(Logged)
        /\ \A i \in Logged : stderr[i].lineno \in Encountered \ Accepted
        /\ args.combined => Len(Entries(combined_file)) = stats.processed
        /\ (~args.combined /\ ~args.outdir) => Len(Entries(stdout)) = stats.processed
        /\ args.outdir => \A i \in Accepted :
                              \E f \in outdir_files : f[1] = FileNameOf(jsonl[i].person)

\* a finished lenient run that processed a record and skipped two
C22_Witness ==
    /\ args.strict = FALSE
    /\ exit_code = Some(0)
    /\ stats.processed >= 1
    /\ stats.skipped >= 2

\* the biography of the record on line i
BioOfLine(i) == build_biography(jsonl[i].person, today).text

\* the biographies of the well-formed records among the first k lines, in
\* input order
RECURSIVE BiosUpTo(_)
BiosUpTo(k) ==
    IF k = 0 THEN <<>>
    ELSE IF k \in Accepted THEN Append(BiosUpTo(k - 1), BioOfLine(k))
    ELSE BiosUpTo(k - 1)

(* C23: in strict mode the batch aborts at the first malformed record or   *)
(* record with a missing required field: no biography is generated or      *)
(* written for any record that comes after it in the input, while the      *)
(* biographies of the records before it have already been written.         *)
C23_StrictAbortsAtFirstMalformed ==
    (args.strict = TRUE /\ exit_code = Some(1)) =>
        /\ lineno \in Encountered \ Accepted
        /\ \A i \in 1..(lineno - 1) : i \in Encountered => i \in Accepted
        /\ stats.processed = Cardinality(Accepted)
        /\ args.combined => Entries(combined_file) = BiosUpTo(lineno)
        /\ (~args.combined /\ ~args.outdir) => Entries(stdout) = BiosUpTo(lineno)
        /\ args.outdir =>
               /\ \A i \in Accepted :
                      \E f \in outdir_files : f[1] = FileNameOf(jsonl[i].person)
               /\ \A f \in outdir_files :
                      \E i \in Accepted : f = <<FileNameOf(jsonl[i].person), BioOfLine(i)>>

\* a strict run aborted with a record written before the malformed one and
\* a well-formed record after it
C23_Witness ==
    /\ args.strict = TRUE
    /\ exit_code = Some(1)
    /\ stats.processed >= 1
    /\ lineno < Len(jsonl)
    /\ jsonl[Len(jsonl)] = jsonl[1]

(* C24: with an output directory, the batch writes one biography per file: *)
(* after a run, the directory holds one file for each processed record, so *)
(* two processed records never end up in the same file: the biography of   *)
(* every processed record is in the directory, in the file named after the *)
(* record.                                                                 *)
C24_OneFilePerProcessedRecord ==
    (args.outdir = TRUE /\ exit_code # None) =>
        \A i \in Accepted :
            <<FileNameOf(jsonl[i].person), BioOfLine(i)>> \in outdir_files

\* what the claim says the combined file holds after n entries
RECURSIVE Separated(_)
Separated(bios) ==
    IF Len(bios) <= 1 THEN bios
    ELSE <<Head(bios), SEPARATOR>> \o Separated(Tail(bios))

(* C25: in the combined file the fixed separator appears only between      *)
(* entries: for any sequence of valid and skipped records, the file holds  *)
(* the biographies of the processed records in input order with exactly    *)
(* (processed - 1) separators (none when nothing was processed), none      *)
(* before the first entry, none after the last, and none for skipped       *)
(* records.                                                                *)
C25_SeparatorOnlyBetweenEntries ==
    (args.combined = TRUE) =>
        /\ combined_file = Separated(BiosUpTo(lineno))
        /\ Len(combined_file) - Len(Entries(combined_file))
               = IF stats.processed = 0 THEN 0 ELSE stats.processed - 1

\* two records written around a skipped one
C25_Witness ==
    /\ args.combined = TRUE
    /\ exit_code = Some(0)
    /\ stats.processed = 2
    /\ stats.skipped >= 1
    /\ 2 \in Encountered \ Accepted
    /\ combined_file = <<BioOfLine(1), SEPARATOR, BioOfLine(3)>>

\* the death records william and the spouses hold
HeldDeaths ==
    (IF william.death = None THEN {} ELSE {william.death[1]}) \cup
    { william.marriages[i].spouse.death[1] :
          i \in {k \in DOMAIN william.marriages :
                     william.marriages[k].spouse.death # None} }

(* C26: collect_deaths lists all recorded deaths of the given persons and  *)
(* of their spouses, oldest first: after any sequence of add_marriage,     *)
(* set_death and set_spouse_death calls, every death record set on a       *)
(* person or spouse appears in the result and the result is in             *)
(* non-decreasing order of death date.                                     *)
C26_EveryDeathListedOldestFirst ==
    (call.op = "collect_deaths") =>
        /\ \A r \in HeldDeaths : \E i \in DOMAIN call.ret : call.ret[i] = r
        /\ \A i, j \in DOMAIN call.ret :
               i < j => ~DateLess(call.ret[j].death_date, call.ret[i].death_date)

\* the anniversaries of b that have come by e
WholeYears(b, e) ==
    Cardinality({n \in 1..(e[1] - b[1]) : ~DateLess(e, <<b[1] + n, b[2], b[3]>>)})

\* an age a stored for the birth date b and the event date e
AgeAsClaimed(b, e, a) ==
    /\ \/ a = None
       \/ b # None /\ e # None /\ a[1] \in Nat /\ a[1] = WholeYears(b, e)
    /\ (b = None \/ e = None \/ DateLess(e, b)) => a = None

\* every stored age with its birth date and its event date
StoredAges ==
    (IF william.death = None THEN {}
     ELSE {<<william.birth_date, william.death[1].death_date,
             william.death[1].age_at_death>>}) \cup
    UNION { {<<william.birth_date, william.marriages[i].marriage_date,
               william.marriages[i].age_person_at_marriage>>,
             <<william.marriages[i].spouse.birth_date,
               william.marriages[i].marriage_date,
               william.marriages[i].age_spouse_at_marriage>>} \cup
            (IF william.marriages[i].spouse.death = None THEN {}
             ELSE {<<william.marriages[i].spouse.birth_date,
                     william.marriages[i].spouse.death[1].death_date,
                     william.marriages[i].spouse.death[1].age_at_death>>}) :
                i \in DOMAIN william.marriages }

TwoDigits(n) == IF n < 10 THEN "0" \o ToString(n) ELSE ToString(n)

\* the ways to write a day in one of the five layouts, padded or not
Writings(y, m, d) ==
    UNION { {ToString(y) \o "-" \o mm \o "-" \o dd, dd \o "/" \o mm \o "/" \o ToString(y),
             dd \o "-" \o mm \o "-" \o ToString(y), ToString(y) \o "/" \o mm \o "/" \o dd,
             mm \o "/" \o dd \o "/" \o ToString(y)} :
                mm \in {ToString(m), TwoDigits(m)}, dd \in {ToString(d), TwoDigits(d)} }

\* the date texts of the latest call, each with the date stored for it
TextsRead ==
    IF call.op = "from_raw" THEN {<<call.birth_date, william.birth_date>>}
    ELSE IF call.op = "add_marriage"
    THEN {<<call.birth_date,
            william.marriages[Len(william.marriages)].spouse.birth_date>>,
          <<call.event_date,
            william.marriages[Len(william.marriages)].marriage_date>>}
    ELSE IF call.op = "set_death"
    THEN {<<call.event_date, william.death[1].death_date>>}
    ELSE IF call.op = "set_spouse_death" /\ ~call.raised
    THEN {<<call.event_date,
            william.marriages[call.spouse_index + 1].spouse.death[1].death_date>>}
    ELSE {}

\* a date is stored only for a text that writes that very day, so a
\* missing, year-only or unparsable text stores None
StoredOnlyIfWritten(pair) ==
    \/ pair[2] = None
    \/ /\ ValidDate(pair[2][1], pair[2][2], pair[2][3])
       /\ Str(Strip(pair[1])) \in Writings(pair[2][1], pair[2][2], pair[2][3])

(* C27: after any sequence of Person.from_raw, add_marriage, set_death and *)
(* set_spouse_death calls, every stored age (age_at_death of the person    *)
(* and of each spouse, age_person_at_marriage, age_spouse_at_marriage) is  *)
(* either None or a non-negative integer equal to the whole years between  *)
(* the corresponding birth date and event date; it is None whenever either *)
(* date is missing, year-only or unparsable, or the event precedes the     *)
(* birth; and set_spouse_death with an index outside the marriages list    *)
(* raises IndexError and changes nothing.                                  *)
C27_AgesWholeYearsOrNone ==
    /\ [](/\ \A t \in StoredAges : AgeAsClaimed(t[1], t[2], t[3])
          /\ \A pair \in TextsRead : StoredOnlyIfWritten(pair))
    /\ [][(call'.op = "set_spouse_death") =>
              /\ call'.raised <=> \/ call'.spouse_index < 0
                                  \/ call'.spouse_index >= Len(william.marriages)
              /\ call'.raised => william' = william]_vars

\* william died at 20, days before the birthday; the spouse's birth date is
\* a bare year; the latest call named a spouse that is not there
C27_Witness ==
    /\ call.op = "set_spouse_death"
    /\ call.raised
    /\ william.death # None
    /\ william.death[1].age_at_death = Some(20)
    /\ Len(william.marriages) = 1
    /\ william.marriages[1].spouse.birth_date = None
    /\ william.marriages[1].age_spouse_at_marriage = None
    /\ william.marriages[1].age_person_at_marriage = Some(20)

\* what the i-th line of the file is, and the first piece of it: its level
KindAt(i) == LineKind(ged[i], SplitWs(ged[i])).kind

GroupAt(i) == LineKind(ged[i], SplitWs(ged[i])).group

LevelAt(i) == SplitWs(ged[i])[1]

\* the FAM start lines read so far at or before line i
StartsUpTo(i) == {j \in 1..i : j <= scanned /\ KindAt(j) = "FAM"}

\* the family started most recently when line i is read, None before the first
FamilyAt(i) ==
    IF StartsUpTo(i) = {} THEN None
    ELSE GroupAt(CHOOSE j \in StartsUpTo(i) : \A k \in StartsUpTo(i) : k <= j)

\* line i lies inside a "1 MARR" block of the family fid: a MARR line of
\* that family comes before it with no level-1 or level-0 line in between
InOwnMarrBlock(i, fid) ==
    \E k \in 1..(i - 1) :
        /\ KindAt(k) = "MARR"
        /\ FamilyAt(k) = fid
        /\ \A l \in (k + 1)..(i - 1) : LevelAt(l) \notin {<<"0">>, <<"1">>}

\* a marriage detail of the family fid was read from a line of its own block
FromOwnBlock(fid, kind, value) ==
    \E i \in 1..scanned :
        KindAt(i) = kind /\ GroupAt(i) = value /\ InOwnMarrBlock(i, fid)

\* the xrefs of the lines of a kind that belong to the latest record of fid
MembersOf(fid, kind) ==
    [n \in DOMAIN SelectSeq([i \in 1..scanned |-> i],
                            LAMBDA i : /\ KindAt(i) = kind
                                       /\ FamilyAt(i) = fid
                                       /\ \A j \in i..scanned :
                                              ~(KindAt(j) = "FAM" /\ GroupAt(j) = fid)) |->
        GroupAt(SelectSeq([i \in 1..scanned |-> i],
                          LAMBDA i : /\ KindAt(i) = kind
                                     /\ FamilyAt(i) = fid
                                     /\ \A j \in i..scanned :
                                            ~(KindAt(j) = "FAM" /\ GroupAt(j) = fid))[n])]

LastOrNone(xrefs) == IF xrefs = <<>> THEN None ELSE xrefs[Len(xrefs)]

\* HUSB, WIFE and CHIL lines go to the family started most recently, and to
\* none before the first
MembersAsClaimed ==
    \A fid \in DOMAIN families :
        /\ families[fid].children = MembersOf(fid, "CHIL")
        /\ families[fid].husband = LastOrNone(MembersOf(fid, "HUSB"))
        /\ families[fid].wife = LastOrNone(MembersOf(fid, "WIFE"))

(* C28: in the GEDCOM family scanner, for any sequence of input lines, a   *)
(* level-2 DATE or PLAC line is recorded as a family's marriage date/place *)
(* only when it lies inside that family's own "1 MARR" block, i.e. after   *)
(* the family's FAM start line and its "1 MARR" line with no other level-1 *)
(* or level-0 line in between; HUSB, WIFE and CHIL lines are attributed to *)
(* the most recently started family and ignored before the first one.      *)
C28_MarriageDetailsOnlyFromOwnBlock ==
    /\ \A fid \in DOMAIN families :
           families[fid].marriage # None =>
               /\ families[fid].marriage[1].date # None =>
                      FromOwnBlock(fid, "DATE", families[fid].marriage[1].date)
               /\ families[fid].marriage[1].place # None =>
                      FromOwnBlock(fid, "PLAC", families[fid].marriage[1].place)
    /\ MembersAsClaimed

====
